---- MODULE Spec2Model ----
(***************************************************************************)
(* tasktui: the view-navigation state machine of the terminal UI           *)
(* (src/tui/app.rs, src/tui/mod.rs) over the file-backed task store        *)
(* (src/storage.rs, src/models.rs, src/config.rs).                         *)
(* Spec is the event loop of the terminal UI; SpecStore is the task store  *)
(* on its own, with its files as text.                                     *)
(*                                                                         *)
(* Strings are sequences of one-character strings, Option<T> is a sequence *)
(* of length 0 (None) or 1 (Some), a Vec is a sequence (index 0 of the     *)
(* code is index 1 here; cursors keep the code's 0-based values).          *)
(***************************************************************************)
EXTENDS Integers, Sequences, FiniteSets, TLC

VARIABLES
    view_mode,            \* App.view_mode
    tasks,                \* App.tasks (Vec<TaskItem>)
    selected_index,       \* App.selected_index (Compact cursor)
    active_filter,        \* App.active_filter (Option<String>)
    show_new_task,        \* App.show_new_task
    new_task_title,       \* App.new_task_title
    kanban_column,        \* App.kanban_column
    kanban_row,           \* App.kanban_row
    settings_selected,    \* App.settings_selected
    settings_editing,     \* App.settings_editing
    settings_edit_text,   \* App.settings_edit_text
    projects_selected,    \* App.projects_selected
    current_project_id,   \* App.current_project_id (Option<Uuid>)
    gantt_selected,       \* App.gantt_selected
    gantt_scroll_offset,  \* App.gantt_scroll_offset
    show_new_project,     \* App.show_new_project
    new_project_title,    \* App.new_project_title
    workstreams,          \* App.config.workstreams
    files,                \* the task files of the data directory, in listing order
    config_file,          \* the workstreams stored in .tasktui-config.yaml
    running,              \* the loop of run_app has not returned
    client,               \* App.enricher.client (Option<OpenAIClient>)
    enrichment,           \* what the handler of the last key event asked of the enricher
    last_op,              \* the App method the last key event was dispatched to
    nkeys,                \* key events handled so far
    dir_exists,           \* Storage.data_dir exists
    dir,                  \* the files of Storage.data_dir as text, in listing order
    items,                \* the TaskItem values a caller of Storage holds
    outcome,              \* the last Storage call: its argument and what it returned
    nops,                 \* Storage calls and file-system events so far
    today,                \* Utc::now().date_naive() of the frame
    area_width,           \* area.width of the timeline's Rect
    project_tasks,        \* app.get_project_tasks() of the frame
    scroll_offset,        \* app.gantt_scroll_offset of the frame
    frame                 \* what render_gantt computed and drew

appVars == << view_mode, tasks, selected_index, active_filter, show_new_task,
           new_task_title, kanban_column, kanban_row, settings_selected,
           settings_editing, settings_edit_text, projects_selected,
           current_project_id, gantt_selected, gantt_scroll_offset,
           show_new_project, new_project_title, workstreams, files,
           config_file, running, client, enrichment, last_op, nkeys >>

storageVars == << dir_exists, dir, items, outcome, nops >>

timelineVars == << today, area_width, project_tasks, scroll_offset, frame >>

vars == << appVars, storageVars, timelineVars >>

(***************************************************************************)
(* Bounds of the exploration.                                              *)
(***************************************************************************)
\* key events handled in one run of the loop
MaxKeys == 5
\* characters a dialog buffer may hold
MaxBuf == 2
\* task files the store may hold
MaxTasks == 6
\* workstreams the configuration may hold
MaxWorkstreams == 9

(***************************************************************************)
(* Program constants.                                                      *)
(***************************************************************************)
KANBAN_COL_ACTIVE == 0
KANBAN_COL_NEXT == 1
KANBAN_COL_WAITING == 2
KANBAN_COL_DONE == 3
\* the number of Kanban columns (the modulus of kanban_move_right)
KanbanColumns == 4
\* the Done tasks the Compact list shows
DoneShown == 10
\* days one Gantt scroll action moves the window
ScrollStep == 7

None == << >>
Some(x) == << x >>

\* Status (src/models.rs)
Statuses == {"active", "next", "waiting", "done", "archived"}
\* ViewMode (src/tui/app.rs)
ViewModes == {"Kanban", "Compact", "Settings", "Projects", "ProjectGantt"}

(***************************************************************************)
(* Key events (crossterm KeyCode): named keys and Char(c).                 *)
(***************************************************************************)
NamedKeys == {"Esc", "Enter", "Backspace", "Tab", "Up", "Down", "Left",
              "Right", "Delete"}
Chars == {"q", "n", "r", "s", "p", "0", "1", "2", "3", "4", "5", "6", "7",
          "8", "9", "k", "j", "h", "l", "d", "a", "x", " ", "w"}
Keys == NamedKeys \cup Chars
\* the characters typed into a dialog buffer
TypedChars == {"q", " "}

(***************************************************************************)
(* String helpers (std::string::String).                                   *)
(***************************************************************************)
\* String::pop
pop(s) == IF s = << >> THEN s ELSE SubSeq(s, 1, Len(s) - 1)

\* char::is_whitespace, on the characters the texts are made of
Whitespace == {" ", "\n"}

RECURSIVE trim_start(_)
trim_start(s) ==
    IF s # << >> /\ Head(s) \in Whitespace THEN trim_start(Tail(s)) ELSE s

RECURSIVE trim_end(_)
trim_end(s) ==
    IF s # << >> /\ s[Len(s)] \in Whitespace THEN trim_end(pop(s)) ELSE s

\* str::trim
trim(s) == trim_end(trim_start(s))

\* str::find: the first position at which pat occurs in s, or 0
find(s, pat) ==
    LET at == { i \in 1..(Len(s) - Len(pat) + 1) :
                  SubSeq(s, i, i + Len(pat) - 1) = pat }
    IN  IF at = { } THEN 0 ELSE CHOOSE i \in at : \A j \in at : i <= j

\* str::rfind: the last position at which pat occurs in s, or 0
rfind(s, pat) ==
    LET at == { i \in 1..(Len(s) - Len(pat) + 1) :
                  SubSeq(s, i, i + Len(pat) - 1) = pat }
    IN  IF at = { } THEN 0 ELSE CHOOSE i \in at : \A j \in at : j <= i

saturating_sub(a, b) == IF a >= b THEN a - b ELSE 0

\* the range of gantt_scroll_offset: i32
I32_MIN == -2147483647 - 1
I32_MAX == 2147483647

\* i32::saturating_sub
i32_saturating_sub(a, b) == IF a < I32_MIN + b THEN I32_MIN ELSE a - b

Min(a, b) == IF a <= b THEN a ELSE b

(***************************************************************************)
(* Task items (src/models.rs).                                             *)
(***************************************************************************)
\* TaskItem::new: a fresh Active item without tags or parent
new(id, title, item_type) ==
    [ id |-> id, item_type |-> item_type, title |-> title,
      status |-> "active", priority |-> "medium", tags |-> << >>,
      due_date |-> None, parent_goal_id |-> None, body |-> << >> ]

\* TaskItem::new_project
new_project(id, title) == new(id, title, "project")

\* TaskItem::is_project
is_project(t) == t.item_type = "project"

\* TaskItem::has_tag
has_tag(t, tag) == \E i \in 1..Len(t.tags) : t.tags[i] = tag

\* Uuid::new_v4: an id no stored item has
new_v4(fs) == Len(fs) + 1

(***************************************************************************)
(* The store (src/storage.rs).  A directory lists its files in an order    *)
(* the program does not control: an overwritten file keeps its place, a    *)
(* new file may appear at any place of the listing.                        *)
(***************************************************************************)
file_index(fs, id) ==
    IF \E i \in 1..Len(fs) : fs[i].id = id
    THEN CHOOSE i \in 1..Len(fs) : fs[i].id = id
    ELSE 0

insert_at(fs, pos, t) ==
    SubSeq(fs, 1, pos - 1) \o << t >> \o SubSeq(fs, pos, Len(fs))

\* Storage::write_task: the listings the directory may show afterwards
write_task(fs, t) ==
    IF file_index(fs, t.id) # 0
    THEN { [ fs EXCEPT ![file_index(fs, t.id)] = t ] }
    ELSE { insert_at(fs, pos, t) : pos \in 1..(Len(fs) + 1) }

\* Storage::load_all_tasks: every file parses, in listing order
load_all_tasks(fs) == fs

(***************************************************************************)
(* Configuration (src/config.rs).                                          *)
(***************************************************************************)
\* the keys add_workstream assigns, in the order it tries them
AssignableKeys == << "3", "4", "5", "6", "7", "8", "9" >>

used_keys(ws) == { ws[i].key : i \in 1..Len(ws) }

\* add_workstream assigning '3' without a look at the used keys
add_workstream_first_key(ws, name) ==
    Append(ws, [ name |-> name, key |-> AssignableKeys[1] ])

\* AppConfig::add_workstream
add_workstream(ws, name) ==
    IF \E i \in 1..Len(AssignableKeys) : AssignableKeys[i] \notin used_keys(ws)
    THEN LET first == CHOOSE i \in 1..Len(AssignableKeys) :
                         /\ AssignableKeys[i] \notin used_keys(ws)
                         /\ \A j \in 1..(i - 1) : AssignableKeys[j] \in used_keys(ws)
         IN  Append(ws, [ name |-> name, key |-> AssignableKeys[first] ])
    ELSE ws

\* AppConfig::get_workstream_by_key
get_workstream_by_key(ws, key) ==
    IF \E i \in 1..Len(ws) : ws[i].key = key
    THEN LET first == CHOOSE i \in 1..Len(ws) :
                         /\ ws[i].key = key
                         /\ \A j \in 1..(i - 1) : ws[j].key # key
         IN  Some(ws[first])
    ELSE None

\* Vec::remove at a 0-based index
remove(seq, idx) == SubSeq(seq, 1, idx) \o SubSeq(seq, idx + 2, Len(seq))

(***************************************************************************)
(* Slices of the task set (src/tui/app.rs).                                *)
(***************************************************************************)
\* filtered_tasks comparing the tags without regard to case
filtered_tasks_ignore_case(ts, flt) ==
    LET lower(str) == [ i \in 1..Len(str) |->
                          IF str[i] = "W" THEN "w" ELSE str[i] ]
    IN  IF flt = None THEN ts
        ELSE SelectSeq(ts, LAMBDA t :
                 \E i \in 1..Len(t.tags) : lower(t.tags[i]) = lower(flt[1]))
\* App::filtered_tasks
filtered_tasks(ts, flt) ==
    IF flt = None THEN ts
    ELSE SelectSeq(ts, LAMBDA t : has_tag(t, flt[1]))

\* App::tasks_by_status
tasks_by_status(ts, flt, status) ==
    SelectSeq(filtered_tasks(ts, flt), LAMBDA t : t.status = status)

\* App::display_ordered_tasks
display_ordered_tasks(ts, flt) ==
    tasks_by_status(ts, flt, "active") \o tasks_by_status(ts, flt, "next")
        \o tasks_by_status(ts, flt, "done")

\* render_task_list (src/tui/compact.rs): the rows the Compact view draws
render_task_list(ts, flt) ==
    LET done_tasks == tasks_by_status(ts, flt, "done")
    IN  tasks_by_status(ts, flt, "active") \o tasks_by_status(ts, flt, "next")
            \o SubSeq(done_tasks, 1, Min(Len(done_tasks), DoneShown))

\* App::kanban_column_status
kanban_column_status(col) ==
    CASE col = KANBAN_COL_ACTIVE -> "active"
      [] col = KANBAN_COL_NEXT -> "next"
      [] col = KANBAN_COL_WAITING -> "waiting"
      [] col = KANBAN_COL_DONE -> "done"
      [] OTHER -> "active"

\* App::kanban_column_tasks
kanban_column_tasks(ts, flt, col) ==
    tasks_by_status(ts, flt, kanban_column_status(col))

\* App::kanban_selected_task
kanban_selected_task(ts, flt, col, row) ==
    LET column == kanban_column_tasks(ts, flt, col)
    IN  IF row < Len(column) THEN Some(column[row + 1]) ELSE None

\* App::get_projects
get_projects(ts) == SelectSeq(ts, is_project)

\* get_project_tasks returning the children of every project
get_project_tasks_any_parent(ts, project) ==
    IF project = None THEN << >>
    ELSE SelectSeq(ts, LAMBDA t : t.parent_goal_id # None)

\* App::get_project_tasks
get_project_tasks(ts, project) ==
    IF project = None THEN << >>
    ELSE SelectSeq(ts, LAMBDA t : t.parent_goal_id = project)

\* the in-memory item with the given id gets the given status
\* (iter_mut().find(..) followed by the assignment)
set_status(ts, id, status) ==
    IF \E i \in 1..Len(ts) : ts[i].id = id
    THEN LET first == CHOOSE i \in 1..Len(ts) :
                         /\ ts[i].id = id
                         /\ \A j \in 1..(i - 1) : ts[j].id # id
         IN  [ ts EXCEPT ![first].status = status ]
    ELSE ts

find_task(ts, id) ==
    LET first == CHOOSE i \in 1..Len(ts) :
                    /\ ts[i].id = id
                    /\ \A j \in 1..(i - 1) : ts[j].id # id
    IN  ts[first]

(***************************************************************************)
(* The enrichment collaborator (src/llm/enricher.rs): the title-only       *)
(* fallback, or a record the service made out of the input.                *)
(***************************************************************************)
\* EnrichedTask::simple
simple(title) ==
    [ title |-> title, due_date |-> None, priority |-> None, tags |-> << >>,
      context |-> None ]

\* the members of a JSON object, each present with its value or absent
json_members(title, due_date, priority, tags, context) ==
    [ title |-> title, due_date |-> due_date, priority |-> priority,
      tags |-> tags, context |-> context ]

\* the member lists of the objects in the replies, by the token that
\* stands for the list: a full record under a title of its own, a title
\* alone, an empty title with the priority LOW, a priority that is no
\* priority, members without title
JsonMembers ==
    [ full |-> json_members(Some(<< "m" >>), Some("2025-03-10"),
                            Some(<< "H", "i", "g", "h" >>),
                            Some(<< << "w" >> >>), Some(<< "n" >>)),
      title_q |-> json_members(Some(<< "q" >>), None, None, None, None),
      title_empty_LOW |-> json_members(Some(<< >>), None,
                                       Some(<< "L", "O", "W" >>), None, None),
      title_q_urgent |->
          json_members(Some(<< "q" >>), None,
                       Some(<< "u", "r", "g", "e", "n", "t" >>), None, None),
      low_no_title |-> json_members(None, None, Some(<< "l", "o", "w" >>),
                                    None, None) ]

\* the text of a reply is a sequence of tokens: the braces, the code fence
\* (three backquotes, the token "fence"), the word json, a word of prose, a blank, a line end,
\* and the member list of an object as one token.  The replies of the
\* service in the runs:
Replies ==
    { \* the object alone, with whitespace around it
      << "\n", "{", "full", "}", "\n" >>,
      \* prose, then the object in a ```json block
      << "Sure", "\n", "fence", "json", "\n", "{", "title_q", "}", "\n",
         "fence" >>,
      \* the object in a ``` block without language
      << "fence", "\n", "{", "title_q_urgent", "}", "\n", "fence" >>,
      \* a ```json block that is never closed
      << "fence", "json", "\n", "{", "title_q", "}" >>,
      \* the object between prose
      << "Sure", " ", "{", "title_empty_LOW", "}", " ", "Sure" >>,
      \* the object first, prose after it
      << "{", "title_empty_LOW", "}", "\n", "\n", "Sure" >>,
      \* prose with braces of its own before the object
      << "Sure", " ", "{", "Sure", "}", " ", "{", "title_empty_LOW", "}" >>,
      \* a ``` block under a language without line end
      << "fence", "Sure", " ", "{", "title_q", "}", "fence" >>,
      \* an object without title
      << "{", "low_no_title", "}" >>,
      \* a closing brace before an opening one
      << "}", " ", "Sure", " ", "{" >>,
      \* prose without braces
      << "Sure" >> }

\* OpenAIClient::complete: an error, or the text of the reply
OpenAIClient_complete ==
    { [ ok |-> FALSE, response |-> << >> ] }
       \cup { [ ok |-> TRUE, response |-> r ] : r \in Replies }

\* extract_json: [ok, json], the text taken for JSON; in this order the
\* whole trimmed text when it begins with a brace, the inside of the first
\* ```json block, the inside of the first ``` block from its first line
\* end on, the text from the first opening to the last closing brace
extract_json(response) ==
    LET trimmed == trim(response)
        from(str, n) == SubSeq(str, n, Len(str))
        upto(str, n) == SubSeq(str, 1, n - 1)
        fence == << "fence" >>
        json_start == find(trimmed, << "fence", "json" >>)
        after_json == from(trimmed, json_start + 2)
        block_start == find(trimmed, fence)
        after_marker == from(trimmed, block_start + 1)
        content_start ==
            IF find(after_marker, << "\n" >>) = 0 THEN 1
            ELSE find(after_marker, << "\n" >>)
        after_newline == from(after_marker, content_start)
        start == find(trimmed, << "{" >>)
        end == rfind(trimmed, << "}" >>)
    IN  IF trimmed # << >> /\ trimmed[1] = "{"
        THEN [ ok |-> TRUE, json |-> trimmed ]
        ELSE IF json_start # 0 /\ find(after_json, fence) # 0
        THEN [ ok |-> TRUE,
               json |-> trim(upto(after_json, find(after_json, fence))) ]
        ELSE IF block_start # 0 /\ find(after_newline, fence) # 0
        THEN [ ok |-> TRUE,
               json |-> trim(upto(after_newline,
                                  find(after_newline, fence))) ]
        ELSE IF start # 0 /\ end # 0 /\ start < end
        THEN [ ok |-> TRUE, json |-> SubSeq(trimmed, start, end) ]
        ELSE [ ok |-> FALSE, json |-> << >> ]

\* serde_json::from_str::<EnrichedTask>: the text is one object and nothing
\* else but whitespace; title is required, tags default to the empty list,
\* the other members to None
from_str(s) ==
    LET text == SelectSeq(s, LAMBDA c : c \notin Whitespace)
        object ==
            /\ Len(text) = 3 /\ text[1] = "{" /\ text[3] = "}"
            /\ text[2] \in DOMAIN JsonMembers
    IN  IF object /\ JsonMembers[text[2]].title # None
        THEN LET json == JsonMembers[text[2]]
             IN  [ ok |-> TRUE,
                   task |-> [ title |-> json.title[1],
                              due_date |-> json.due_date,
                              priority |-> json.priority,
                              tags |-> IF json.tags # None THEN json.tags[1]
                                       ELSE << >>,
                              context |-> json.context ] ]
        ELSE [ ok |-> FALSE, task |-> simple(<< >>) ]

\* parse_llm_response
parse_llm_response(response) ==
    IF extract_json(response).ok THEN from_str(extract_json(response).json)
    ELSE [ ok |-> FALSE, task |-> simple(<< >>) ]

\* what a call of the enricher did: the EnrichedTask it returned, the
\* requests it sent to the service and how the service answered
enriched_as(result, requests, reply) ==
    [ result |-> result, requests |-> requests, reply |-> reply ]

\* enrich sending the request again after an error of the service
enrich_retry_on_error(cl, raw_input) ==
    IF cl = None THEN { enriched_as(simple(raw_input), 0, "unavailable") }
    ELSE { IF ~ r.ok
           THEN enriched_as(simple(raw_input), 2, "error")
           ELSE IF parse_llm_response(r.response).ok
                THEN enriched_as(parse_llm_response(r.response).task,
                                 1, "parsed")
                ELSE enriched_as(simple(raw_input), 1, "unparsable") :
           r \in OpenAIClient_complete }

\* TaskEnricher::enrich
enrich(cl, raw_input) ==
    IF cl = None THEN { enriched_as(simple(raw_input), 0, "unavailable") }
    ELSE { IF ~ r.ok
           THEN enriched_as(simple(raw_input), 1, "error")
           ELSE IF parse_llm_response(r.response).ok
                THEN enriched_as(parse_llm_response(r.response).task,
                                 1, "parsed")
                ELSE enriched_as(simple(raw_input), 1, "unparsable") :
           r \in OpenAIClient_complete }

\* TaskEnricher::enrich_sync outside a tokio runtime: Runtime::new fails, or
\* the new runtime runs enrich to its end
enrich_sync(cl, raw_input) ==
    IF cl = None THEN { enriched_as(simple(raw_input), 0, "unavailable") }
    ELSE { enriched_as(simple(raw_input), 0, "no_runtime") }
            \cup enrich(cl, raw_input)

\* str::to_lowercase
UpperCase ==
    << "A", "B", "C", "D", "E", "F", "G", "H", "I", "J", "K", "L", "M",
       "N", "O", "P", "Q", "R", "S", "T", "U", "V", "W", "X", "Y", "Z" >>
LowerCase ==
    << "a", "b", "c", "d", "e", "f", "g", "h", "i", "j", "k", "l", "m",
       "n", "o", "p", "q", "r", "s", "t", "u", "v", "w", "x", "y", "z" >>
to_lowercase(str) ==
    [ i \in 1..Len(str) |->
        IF \E k \in 1..26 : UpperCase[k] = str[i]
        THEN LowerCase[CHOOSE k \in 1..26 : UpperCase[k] = str[i]]
        ELSE str[i] ]

\* the priority create_new_task and create_task take from the word of the
\* EnrichedTask
priority_of_word(word) ==
    IF to_lowercase(word) = << "h", "i", "g", "h" >> THEN "high"
    ELSE IF to_lowercase(word) = << "l", "o", "w" >> THEN "low"
    ELSE "medium"

\* the fields create_new_task takes over from the EnrichedTask
apply_enriched(task, enriched) ==
    [ task EXCEPT
        !.due_date = IF enriched.due_date # None THEN enriched.due_date
                     ELSE @,
        !.priority = IF enriched.priority = None THEN @
                     ELSE priority_of_word(enriched.priority[1]),
        !.tags = IF enriched.tags # << >> THEN enriched.tags ELSE @,
        !.body = IF enriched.context # None THEN enriched.context[1] ELSE @ ]

\* the handler of the key event did not call the enricher
NoEnrichment == [ requests |-> 0, reply |-> "none", write_failed |-> FALSE ]

(***************************************************************************)
(* The task files as text (src/storage.rs, src/models.rs).                 *)
(*                                                                         *)
(* A text is a sequence of tokens.  The free-text fields (title, tags, due *)
(* date, body) contribute their characters one by one; each YAML key, each *)
(* list marker and each scalar that is not free text (uuid, enum value,    *)
(* timestamp) is one token.  serde_yaml is taken to write one `key: value` *)
(* line per field and to read back the lines it wrote; the quoting it adds *)
(* around a scalar is not part of the tokens.                              *)
(***************************************************************************)
\* the header delimiter of parse_file and serialize_task
Delim == << "-", "-", "-" >>

\* the values of Uuid, DateTime<Utc>, Status, ItemType and Priority
Uuids == {"u1", "u2", "u3", "u4", "u5"}
Timestamps == {"t0", "t1", "t2"}
ItemTypes == {"task", "goal", "note"}
Priorities == {"low", "medium", "high"}

\* the fields of Frontmatter without a serde default / with one
RequiredKeys == {"id:", "type:", "title:", "status:", "created_at:"}
OptionalKeys == {"priority:", "tags:", "due_date:", "parent_goal_id:"}

\* PathBuf::new(): the empty path
EmptyPath == [ stem |-> "", ext |-> "" ]

\* data_dir.join(format!("{}.md", id))
md_path(id) == [ stem |-> id, ext |-> "md" ]

\* TaskItem::new with every field of the item
TaskItem_new(id, now, title, item_type) ==
    [ frontmatter |->
        [ id |-> id, item_type |-> item_type, title |-> title,
          status |-> "active", priority |-> "medium", tags |-> << >>,
          due_date |-> None, parent_goal_id |-> None, created_at |-> now ],
      body |-> << >>,
      file_path |-> EmptyPath ]

\* str::splitn: at most n parts, the last one holding the rest
RECURSIVE splitn(_, _, _)
splitn(s, n, pat) ==
    IF n <= 1 \/ find(s, pat) = 0 THEN << s >>
    ELSE << SubSeq(s, 1, find(s, pat) - 1) >>
            \o splitn(SubSeq(s, find(s, pat) + Len(pat), Len(s)), n - 1, pat)

\* the lines of a YAML text
lines(s) == splitn(s, Len(s) + 1, << "\n" >>)

\* the `tags` field as serde_yaml writes it: `tags: []` or one `- tag` line
\* per tag
RECURSIVE yaml_list(_)
yaml_list(tags) ==
    IF tags = << >> THEN << >>
    ELSE << "- " >> \o Head(tags) \o << "\n" >> \o yaml_list(Tail(tags))

\* serde_yaml::to_string(&Frontmatter): the fields in declaration order,
\* due_date and parent_goal_id skipped when None
to_yaml(fm) ==
    << "id:", fm.id, "\n", "type:", fm.item_type, "\n", "title:" >>
      \o fm.title
      \o << "\n", "status:", fm.status, "\n", "priority:", fm.priority, "\n" >>
      \o (IF fm.tags = << >> THEN << "tags:", "[]", "\n" >>
          ELSE << "tags:", "\n" >> \o yaml_list(fm.tags))
      \o (IF fm.due_date = None THEN << >>
          ELSE << "due_date:" >> \o fm.due_date[1] \o << "\n" >>)
      \o (IF fm.parent_goal_id = None THEN << >>
          ELSE << "parent_goal_id:", fm.parent_goal_id[1], "\n" >>)
      \o << "created_at:", fm.created_at, "\n" >>

\* each line without its first token
RECURSIVE tails(_)
tails(ls) ==
    IF ls = << >> THEN << >> ELSE << Tail(Head(ls)) >> \o tails(Tail(ls))

\* the tokens that stand for a value: the scalars that are one token and
\* the characters of free text
Scalars ==
    Uuids \cup Timestamps \cup ItemTypes \cup Statuses \cup Priorities
      \cup Chars \cup {"[]", "-", "b", "later", "red"}

\* the line starts with a key that Frontmatter has no field for
other_key(l) ==
    l[1] \notin RequiredKeys \cup OptionalKeys \cup Scalars \cup {"- "}

\* serde_yaml::from_str::<Frontmatter>: [ok, frontmatter]; every required
\* field once, every other field at most once, enum and uuid values valid,
\* a key without a field skipped with its value (the derive does not deny
\* unknown fields), list lines only under `tags:` or under a skipped key
from_yaml(s) ==
    LET ls == SelectSeq(lines(s), LAMBDA l : l # << >>)
        at(key) == { i \in 1..Len(ls) : ls[i][1] = key }
        pos(key) == CHOOSE i \in at(key) : TRUE
        value(key) == Tail(ls[pos(key)])
        scalar(key, allowed) ==
            Len(value(key)) = 1 /\ value(key)[1] \in allowed
        listed == { i \in 1..Len(ls) : ls[i][1] = "- " }
        \* the key line a list line stands under, 0 without one
        owner(i) ==
            LET above == { j \in 1..(i - 1) : j \notin listed }
            IN  IF above = { } THEN 0
                ELSE CHOOSE j \in above : \A k \in above : k <= j
        under(j) == { i \in listed : owner(i) = j }
        ok ==
            /\ \A i \in 1..Len(ls) :
                  \/ ls[i][1] \in RequiredKeys \cup OptionalKeys \cup {"- "}
                  \/ other_key(ls[i])
            /\ \A key \in RequiredKeys : Cardinality(at(key)) = 1
            /\ \A key \in OptionalKeys : Cardinality(at(key)) <= 1
            /\ scalar("id:", Uuids)
            /\ scalar("type:", ItemTypes)
            /\ scalar("status:", Statuses)
            /\ scalar("created_at:", Timestamps)
            /\ at("priority:") # { } => scalar("priority:", Priorities)
            /\ at("parent_goal_id:") # { } => scalar("parent_goal_id:", Uuids)
            /\ at("tags:") # { } => value("tags:") \in { << >>, << "[]" >> }
            /\ \A i \in listed :
                  /\ owner(i) # 0
                  /\ Tail(ls[owner(i)]) = << >>
                  /\ ls[owner(i)][1] = "tags:" \/ other_key(ls[owner(i)])
    IN  IF ok
        THEN [ ok |-> TRUE,
               frontmatter |->
                 [ id |-> value("id:")[1],
                   item_type |-> value("type:")[1],
                   title |-> value("title:"),
                   status |-> value("status:")[1],
                   priority |-> IF at("priority:") = { } THEN "medium"
                                ELSE value("priority:")[1],
                   tags |-> IF at("tags:") = { } THEN << >>
                            ELSE tails(SubSeq(ls, pos("tags:") + 1,
                                       pos("tags:")
                                         + Cardinality(under(pos("tags:"))))),
                   due_date |-> IF at("due_date:") = { } THEN None
                                ELSE Some(value("due_date:")),
                   parent_goal_id |->
                       IF at("parent_goal_id:") = { } THEN None
                       ELSE Some(value("parent_goal_id:")[1]),
                   created_at |-> value("created_at:")[1] ] ]
        ELSE [ ok |-> FALSE, frontmatter |-> << >> ]

\* the value a Storage call returned: Ok with an item or a list of items,
\* or Err
NoItem == << >>
Ok(item, loaded) ==
    [ ok |-> TRUE, err |-> "", item |-> item, loaded |-> loaded ]
Err(msg) ==
    [ ok |-> FALSE, err |-> msg, item |-> NoItem, loaded |-> << >> ]

\* the body of Storage::parse_file once the file has been read
parse_content(content, path) ==
    LET parts == splitn(content, 3, Delim)
    IN  IF Len(parts) < 3
        THEN Err("Invalid file format: missing frontmatter delimiters")
        ELSE LET yaml == from_yaml(trim(parts[2]))
             IN  IF ~ yaml.ok THEN Err("Failed to parse frontmatter")
                 ELSE Ok(<< [ frontmatter |-> yaml.frontmatter,
                              body |-> trim(parts[3]),
                              file_path |-> path ] >>, << >>)

\* the position of the file with the path in the listing, or 0
entry_index(d, path) ==
    IF \E i \in 1..Len(d) : d[i].path = path
    THEN CHOOSE i \in 1..Len(d) : d[i].path = path
    ELSE 0

\* Storage::parse_file
Storage_parse_file(d, path) ==
    IF entry_index(d, path) = 0 THEN Err("Failed to read file")
    ELSE parse_content(d[entry_index(d, path)].content, path)

\* Storage::serialize_task
Storage_serialize_task(t) ==
    Delim \o << "\n" >> \o to_yaml(t.frontmatter) \o Delim \o << "\n", "\n" >>
      \o t.body

\* write_task adding a file on every write
Storage_write_task_new_file(d, t) ==
    LET path == md_path(t.frontmatter.id)
        file == [ path |-> path, content |-> Storage_serialize_task(t) ]
    IN  { insert_at(d, pos, file) : pos \in 1..(Len(d) + 1) }

\* Storage::write_task on an existing directory: the listings the directory
\* may show afterwards
Storage_write_task(d, t) ==
    LET path == md_path(t.frontmatter.id)
        file == [ path |-> path, content |-> Storage_serialize_task(t) ]
    IN  IF entry_index(d, path) # 0
        THEN { [ d EXCEPT ![entry_index(d, path)] = file ] }
        ELSE { insert_at(d, pos, file) : pos \in 1..(Len(d) + 1) }

\* the loop of Storage::load_all_tasks over the listing
RECURSIVE load_entries(_)
load_entries(d) ==
    IF d = << >> THEN << >>
    ELSE LET parsed == parse_content(Head(d).content, Head(d).path)
         IN  (IF Head(d).path.ext = "md" /\ parsed.ok THEN parsed.item
              ELSE << >>) \o load_entries(Tail(d))

\* load_all_tasks failing as a whole when one .md file does not parse
Storage_load_all_tasks_strict(exists, d) ==
    IF ~ exists THEN Ok(NoItem, << >>)
    ELSE IF \E i \in 1..Len(d) :
               d[i].path.ext = "md" /\ ~ parse_content(d[i].content, d[i].path).ok
         THEN Err("Failed to parse frontmatter")
         ELSE Ok(NoItem, load_entries(d))

\* Storage::load_all_tasks
Storage_load_all_tasks(exists, d) ==
    IF ~ exists THEN Ok(NoItem, << >>) ELSE Ok(NoItem, load_entries(d))

\* Storage::delete_task: [result, dir]
Storage_delete_task(d, t) ==
    IF entry_index(d, t.file_path) = 0
    THEN [ result |-> Err("Failed to delete task file"), dir |-> d ]
    ELSE [ result |-> Ok(NoItem, << >>),
           dir |-> remove(d, entry_index(d, t.file_path) - 1) ]

\* TaskFilter::matches on the header of an item
matches_any_tag(filter, fm) ==
    /\ filter.status # None => fm.status = filter.status[1]
    /\ filter.item_type # None => fm.item_type = filter.item_type[1]
    /\ filter.tags # << >> =>
          \E i \in 1..Len(filter.tags) : has_tag(fm, filter.tags[i])

\* TaskFilter::matches on the header of an item
matches(filter, fm) ==
    /\ filter.status # None => fm.status = filter.status[1]
    /\ filter.item_type # None => fm.item_type = filter.item_type[1]
    /\ filter.tags # << >> =>
          \A i \in 1..Len(filter.tags) : has_tag(fm, filter.tags[i])

\* Ord for Priority (Low < Medium < High) and for DateTime<Utc>
PriorityOrder == << "low", "medium", "high" >>
TimestampOrder == << "t0", "t1", "t2" >>
rank(order, x) == CHOOSE i \in 1..Len(order) : order[i] = x

\* Ord::cmp on ranks
cmp(a, b) == IF a < b THEN "Less" ELSE IF a > b THEN "Greater" ELSE "Equal"

\* the comparator of list_tasks on created_at alone
cmp_created_only(a, b) ==
    cmp(rank(TimestampOrder, b.frontmatter.created_at),
        rank(TimestampOrder, a.frontmatter.created_at))

\* the comparator of list_tasks: priority high to low, then created_at
\* new to old
cmp_priority_created(a, b) ==
    LET by_priority == cmp(rank(PriorityOrder, b.frontmatter.priority),
                           rank(PriorityOrder, a.frontmatter.priority))
    IN  IF by_priority # "Equal" THEN by_priority
        ELSE cmp(rank(TimestampOrder, b.frontmatter.created_at),
                 rank(TimestampOrder, a.frontmatter.created_at))

\* x put behind every element that does not compare Greater than it
RECURSIVE insert_sorted(_, _)
insert_sorted(sorted, x) ==
    IF sorted = << >> THEN << x >>
    ELSE IF cmp_priority_created(x, Head(sorted)) = "Less"
         THEN << x >> \o sorted
         ELSE << Head(sorted) >> \o insert_sorted(Tail(sorted), x)

\* slice::sort_by with the comparator of list_tasks: a stable sort
RECURSIVE sort_by(_)
sort_by(seq) ==
    IF seq = << >> THEN << >>
    ELSE insert_sorted(sort_by(pop(seq)), seq[Len(seq)])

\* Vec::truncate
truncate(seq, len) == IF len < Len(seq) THEN SubSeq(seq, 1, len) ELSE seq

\* list_tasks cutting the list before it sorts it
Storage_list_tasks_limit_first(exists, d, filter) ==
    LET kept == SelectSeq(Storage_load_all_tasks(exists, d).loaded,
                          LAMBDA t : matches(filter, t.frontmatter))
    IN  Ok(NoItem, sort_by(IF filter.limit # None
                           THEN truncate(kept, filter.limit[1]) ELSE kept))

\* Storage::list_tasks
Storage_list_tasks(exists, d, filter) ==
    LET kept == SelectSeq(Storage_load_all_tasks(exists, d).loaded,
                          LAMBDA t : matches(filter, t.frontmatter))
        sorted == sort_by(kept)
    IN  Ok(NoItem, IF filter.limit # None
                   THEN truncate(sorted, filter.limit[1]) ELSE sorted)

(***************************************************************************)
(* The timeline of a project (src/tui/project_gantt.rs).  A NaiveDate is   *)
(* the number of days since 2025-01-01; a date string is the text of the   *)
(* header field; the bar characters are written in ASCII.                  *)
(***************************************************************************)
TASK_NAME_WIDTH == 20
\* BAR_FULL and BAR_EMPTY, the blocks of a bar, and the today marker
BAR_FULL == "#"
BAR_EMPTY == "."
TODAY_MARK == "|"

Max(a, b) == IF a >= b THEN a ELSE b

\* NaiveDate::from_ymd for the dates of 2025
DaysBeforeMonth == << 0, 31, 59, 90, 120, 151, 181, 212, 243, 273, 304, 334 >>
DaysInMonth == << 31, 28, 31, 30, 31, 30, 31, 31, 30, 31, 30, 31 >>
from_ymd(y, m, d) == DaysBeforeMonth[m] + (d - 1)

\* NaiveDate::parse_from_str(s, "%Y-%m-%d").ok() on the date strings of the
\* stored tasks: the fields of a calendar date of 2025, or None
DateFields ==
    [ s \in { "2025-01-20", "2025-01-31", "2025-02-12", "2025-02-20",
              "2025-02-24", "2025-02-30", "2025-03-10", "2025-03-15",
              "2025-03-17", "2025-03-20" } |->
        CASE s = "2025-01-20" -> << 2025, 1, 20 >>
          [] s = "2025-01-31" -> << 2025, 1, 31 >>
          [] s = "2025-02-12" -> << 2025, 2, 12 >>
          [] s = "2025-02-20" -> << 2025, 2, 20 >>
          [] s = "2025-02-24" -> << 2025, 2, 24 >>
          [] s = "2025-02-30" -> << 2025, 2, 30 >>
          [] s = "2025-03-10" -> << 2025, 3, 10 >>
          [] s = "2025-03-15" -> << 2025, 3, 15 >>
          [] s = "2025-03-17" -> << 2025, 3, 17 >>
          [] s = "2025-03-20" -> << 2025, 3, 20 >> ]
parse_from_str(s) ==
    IF s \notin DOMAIN DateFields THEN None
    ELSE LET f == DateFields[s]
         IN  IF f[2] \in 1..12 /\ f[3] \in 1..DaysInMonth[f[2]]
             THEN Some(from_ymd(f[1], f[2], f[3]))
             ELSE None

\* parse_date
parse_date(date_str) ==
    IF date_str = None THEN None ELSE parse_from_str(date_str[1])

\* Option::or_else and Option::unwrap_or
or_else(opt, other) == IF opt # None THEN opt ELSE other
unwrap_or(opt, default) == IF opt # None THEN opt[1] ELSE default

\* the loop of calculate_date_range over the tasks
RECURSIVE date_range_over(_, _, _)
date_range_over(ts, min_date, max_date) ==
    IF ts = << >> THEN << min_date, max_date >>
    ELSE LET fm == Head(ts)
             start == parse_date(fm.start_date)
             end == or_else(parse_date(fm.end_date), parse_date(fm.due_date))
         IN  date_range_over(Tail(ts),
                 IF start # None /\ start[1] < min_date
                 THEN start[1] ELSE min_date,
                 IF end # None /\ end[1] > max_date
                 THEN end[1] ELSE max_date)

\* calculate_date_range
calculate_date_range(ts, day, offset) ==
    LET range == date_range_over(ts, day - 7, day + 30)
    IN  << range[1] + offset, range[2] + offset >>

\* (total_days as f64 / timeline_width as f64).max(1.0), kept as a fraction;
\* den = 0 is the quotient by a width of 0, +infinity
days_per_char_of(total_days, timeline_width) ==
    IF timeline_width = 0 THEN [ num |-> 1, den |-> 0 ]
    ELSE IF total_days > timeline_width
         THEN [ num |-> total_days, den |-> timeline_width ]
         ELSE [ num |-> 1, den |-> 1 ]

\* the operands (days, total_days, timeline_width), among the window lengths
\* and widths explored, for which the double days / (total_days /
\* timeline_width) is below the exact quotient, an integer
RoundedBelow == { << 35, 42, 18 >>, << 70, 42, 18 >> }

\* (days / days_per_char) as usize, in double arithmetic
f64_div_as_usize(days, days_per_char) ==
    LET exact == (days * days_per_char.den) \div days_per_char.num
    IN  IF << days, days_per_char.num, days_per_char.den >> \in RoundedBelow
        THEN exact - 1 ELSE exact

\* date_to_col
date_to_col(date, min_date, days_per_char, max_col) ==
    LET days == Max(date - min_date, 0)
        col == f64_div_as_usize(days, days_per_char)
    IN  Min(col, saturating_sub(max_col, 1))

\* render_bar without the minimum of one column
render_bar_no_minimum(start_col, end_col, progress, total_width, today_col) ==
    LET bar_length == saturating_sub(end_col, start_col)
        filled == (2 * bar_length * progress + 100) \div 200
        result == [ c \in 1..total_width |->
                      LET i == (c - 1) - start_col
                      IN  IF i >= 0 /\ i < bar_length
                          THEN IF i < filled THEN BAR_FULL ELSE BAR_EMPTY
                          ELSE " " ]
    IN  [ c \in 1..total_width |->
            IF today_col # None /\ today_col[1] = c - 1 /\ result[c] = " "
            THEN TODAY_MARK ELSE result[c] ]

\* render_bar; round() of the non-negative bar_length * progress / 100 is
\* (2 * bar_length * progress + 100) \div 200
render_bar(start_col, end_col, progress, total_width, today_col) ==
    LET bar_length == Max(saturating_sub(end_col, start_col), 1)
        filled == (2 * bar_length * progress + 100) \div 200
        result == [ c \in 1..total_width |->
                      LET i == (c - 1) - start_col
                      IN  IF i >= 0 /\ i < bar_length
                          THEN IF i < filled THEN BAR_FULL ELSE BAR_EMPTY
                          ELSE " " ]
    IN  [ c \in 1..total_width |->
            IF today_col # None /\ today_col[1] = c - 1 /\ result[c] = " "
            THEN TODAY_MARK ELSE result[c] ]

\* the progress of a row taken from the stored value whatever the status
progress_stored(fm) == unwrap_or(fm.progress, 0)

\* the progress of a row in render_gantt
progress_of(fm) ==
    IF fm.status \in {"done", "archived"} THEN 100
    ELSE unwrap_or(fm.progress, 0)

\* the row of a task in render_gantt
gantt_row(fm, day, min_date, days_per_char, timeline_width, today_col) ==
    LET start == unwrap_or(or_else(parse_date(fm.start_date),
                                   parse_date(fm.due_date)), day)
        end == unwrap_or(or_else(parse_date(fm.end_date),
                                 parse_date(fm.due_date)), start + 7)
        start_col == date_to_col(start, min_date, days_per_char,
                                 timeline_width)
        end_col == date_to_col(end, min_date, days_per_char, timeline_width)
        progress == progress_of(fm)
    IN  [ start |-> start, end |-> end,
          start_col |-> start_col, end_col |-> end_col,
          progress |-> progress,
          bar |-> render_bar(start_col, end_col, progress, timeline_width,
                             Some(today_col)) ]

\* render_gantt: the window, the column of today and the rows of the tasks
render_gantt(ts, day, offset, width) ==
    LET timeline_width == saturating_sub(width, TASK_NAME_WIDTH + 4)
        range == calculate_date_range(ts, day, offset)
        min_date == range[1]
        max_date == range[2]
        total_days == Max(max_date - min_date, 1)
        days_per_char == days_per_char_of(total_days, timeline_width)
        today_col == date_to_col(day, min_date, days_per_char, timeline_width)
    IN  [ drawn |-> TRUE,
          timeline_width |-> timeline_width,
          min_date |-> min_date, max_date |-> max_date,
          total_days |-> total_days,
          today_col |-> today_col,
          today_line |-> today_col < timeline_width,
          rows |-> [ i \in 1..Len(ts) |->
                       gantt_row(ts[i], day, min_date, days_per_char,
                                 timeline_width, today_col) ] ]

\* nothing drawn
NoFrame ==
    [ drawn |-> FALSE, timeline_width |-> 0, min_date |-> 0, max_date |-> 0,
      total_days |-> 0, today_col |-> 0, today_line |-> FALSE,
      rows |-> << >> ]

\* no Storage call made yet
NoOutcome == [ op |-> "none", arg |-> NoItem, path |-> EmptyPath,
               result |-> Ok(NoItem, << >>) ]

(***************************************************************************)
(* Initial state: App::new over the data directory found at start-up.      *)
(***************************************************************************)
item(id, item_type, status, tags, parent) ==
    [ id |-> id, item_type |-> item_type, title |-> << "t" >>,
      status |-> status, priority |-> "medium", tags |-> tags,
      due_date |-> None, parent_goal_id |-> parent, body |-> << >> ]

\* a board: three Active tasks, a Waiting and a Done one
StoreBoard ==
    << item(1, "task", "active", << << "w" >> >>, None),
       item(2, "task", "active", << << "W" >> >>, None),
       item(3, "task", "active", << >>, None),
       item(4, "task", "waiting", << << "w" >> >>, None),
       item(5, "task", "done", << >>, None) >>

\* two projects, the first with two child tasks
StoreProjects ==
    << item(1, "project", "active", << >>, None),
       item(2, "task", "next", << << "p" >> >>, Some(1)),
       item(3, "task", "done", << >>, Some(1)),
       item(4, "project", "active", << >>, None) >>

\* a new, empty data directory
StoreEmpty == << >>

InitialStores == { StoreBoard, StoreProjects, StoreEmpty }

\* AppConfig::default, with one-letter names
InitialWorkstreams ==
    << [ name |-> << "w" >>, key |-> "1" ],
       [ name |-> << "p" >>, key |-> "2" ] >>

\* a configuration file in which every key add_workstream can assign is taken
FullWorkstreams ==
    << [ name |-> << "w" >>, key |-> "3" ],
       [ name |-> << "p" >>, key |-> "4" ],
       [ name |-> << "c" >>, key |-> "5" ],
       [ name |-> << "d" >>, key |-> "6" ],
       [ name |-> << "e" >>, key |-> "7" ],
       [ name |-> << "f" >>, key |-> "8" ],
       [ name |-> << "g" >>, key |-> "9" ] >>

\* the data directories the program is started on: each store with the
\* default workstreams and an API key in its configuration file, the empty
\* store with the full configuration, and the empty store without a
\* configuration file (AppConfig::load gives the default, which has no key)
\* the seven categories after settings_delete on the first one, as the
\* configuration file keeps them for the next start
FreedWorkstreams == remove(FullWorkstreams, 0)

InitialSetups ==
    { << st, InitialWorkstreams, Some("key") >> : st \in InitialStores }
       \cup { << StoreEmpty, FullWorkstreams, Some("key") >>,
               << StoreEmpty, FreedWorkstreams, Some("key") >>,
               << StoreEmpty, InitialWorkstreams, None >> }

\* App::new
AppInit ==
    /\ \E setup \in InitialSetups :
          /\ files = setup[1]
          /\ config_file = setup[2]
          /\ client = setup[3]
    /\ enrichment = NoEnrichment
    /\ tasks = load_all_tasks(files)
    /\ workstreams = config_file
    /\ view_mode = "Compact"
    /\ selected_index = 0
    /\ active_filter = None
    /\ show_new_task = FALSE
    /\ new_task_title = << >>
    /\ kanban_column = KANBAN_COL_ACTIVE
    /\ kanban_row = 0
    /\ settings_selected = 0
    /\ settings_editing = FALSE
    /\ settings_edit_text = << >>
    /\ projects_selected = 0
    /\ current_project_id = None
    /\ gantt_selected = 0
    /\ gantt_scroll_offset = 0
    /\ show_new_project = FALSE
    /\ new_project_title = << >>
    /\ running = TRUE
    /\ last_op = "new"
    /\ nkeys = 0

\* Storage::new: the data directory exists; no call made yet
StorageInit ==
    /\ dir_exists = TRUE
    /\ dir = << >>
    /\ items = { }
    /\ outcome = NoOutcome
    /\ nops = 0

\* no frame of the timeline drawn yet
TimelineInit ==
    /\ today = from_ymd(2025, 2, 10)
    /\ area_width = 0
    /\ project_tasks = << >>
    /\ scroll_offset = 0
    /\ frame = NoFrame

Init == AppInit /\ StorageInit /\ TimelineInit

(***************************************************************************)
(* Dispatch of one key event (run_app, src/tui/mod.rs).                    *)
(***************************************************************************)
\* Mode with the view matched before the dialogs
Mode_view_first == view_mode

\* the branch of run_app that receives the next key
Mode ==
    IF show_new_task THEN "NewTaskDialog"
    ELSE IF show_new_project THEN "NewProjectDialog"
    ELSE IF settings_editing THEN "SettingsEditDialog"
    ELSE view_mode

\* the loop is blocked in event::read
Reading == running /\ nkeys < MaxKeys

\* the key was dispatched to op
dispatched(op) ==
    /\ nkeys' = nkeys + 1
    /\ last_op' = op
    /\ UNCHANGED << client, storageVars, timelineVars >>

\* the key was dispatched to op, which does not call the enricher
handled(op) ==
    /\ dispatched(op)
    /\ enrichment' = NoEnrichment

\* the characters run_app matches before the workstream shortcuts
GlobalChars == {"q", "n", "r", "s", "p", "0"}

\* the key is a workstream shortcut (Compact and Kanban)
is_shortcut(key) ==
    /\ key \in Chars \ GlobalChars
    /\ get_workstream_by_key(workstreams, key) # None

\* the key reaches handle_view_keys
is_view_key(key) ==
    /\ Mode \in {"Compact", "Kanban"}
    /\ key \in Keys \ ({"Tab"} \cup GlobalChars)
    /\ ~ is_shortcut(key)

compactVars == << selected_index >>
kanbanVars == << kanban_column, kanban_row >>
taskDialogVars == << show_new_task, new_task_title >>
settingsVars == << settings_selected, settings_editing, settings_edit_text >>
projectsVars == << projects_selected, show_new_project, new_project_title >>
ganttVars == << current_project_id, gantt_selected, gantt_scroll_offset >>
storeVars == << tasks, files >>
configVars == << workstreams, config_file >>

(***************************************************************************)
(* The new-task dialog.                                                    *)
(***************************************************************************)
\* cancel_new_task_dialog without the clear of the buffer
cancel_new_task_dialog_keeps_text ==
    /\ Reading /\ Mode = "NewTaskDialog"
    /\ show_new_task' = FALSE
    /\ handled("cancel_new_task_dialog")
    /\ UNCHANGED << view_mode, new_task_title, compactVars, active_filter,
                    kanbanVars, settingsVars, projectsVars, ganttVars,
                    storeVars, configVars, running >>

\* App::cancel_new_task_dialog
cancel_new_task_dialog ==
    /\ Reading /\ Mode = "NewTaskDialog"
    /\ show_new_task' = FALSE
    /\ new_task_title' = << >>
    /\ handled("cancel_new_task_dialog")
    /\ UNCHANGED << view_mode, compactVars, active_filter, kanbanVars,
                    settingsVars, projectsVars, ganttVars, storeVars,
                    configVars, running >>

\* App::create_new_task
create_new_task ==
    /\ Reading /\ Mode = "NewTaskDialog"
    /\ dispatched("create_new_task")
    /\ IF trim(new_task_title) = << >>
       THEN /\ show_new_task' = FALSE
            /\ enrichment' = NoEnrichment
            /\ UNCHANGED << new_task_title, compactVars, kanbanVars,
                            storeVars, running >>
       ELSE /\ Len(files) < MaxTasks
            /\ \E call \in enrich_sync(client, trim(new_task_title)),
                  ok \in BOOLEAN :
                 LET enriched == call.result
                     task == apply_enriched(
                                 new(new_v4(files), enriched.title, "task"),
                                 enriched)
                     pushed == Append(tasks, task)
                     active_count ==
                         Len(SelectSeq(pushed, LAMBDA t : t.status = "active"))
                 IN  /\ enrichment' = [ requests |-> call.requests,
                                        reply |-> call.reply,
                                        write_failed |-> ~ ok ]
                     /\ IF ok
                        THEN /\ files' \in write_task(files, task)
                             /\ tasks' = pushed
                             /\ selected_index' =
                                    saturating_sub(active_count, 1)
                             /\ kanban_column' = KANBAN_COL_ACTIVE
                             /\ kanban_row' = saturating_sub(
                                    Len(kanban_column_tasks(pushed,
                                            active_filter,
                                            KANBAN_COL_ACTIVE)), 1)
                             /\ show_new_task' = FALSE
                             /\ new_task_title' = << >>
                             /\ UNCHANGED running
                        ELSE /\ running' = FALSE
                             /\ UNCHANGED << taskDialogVars, compactVars,
                                             kanbanVars, storeVars >>
    /\ UNCHANGED << view_mode, active_filter, settingsVars, projectsVars,
                    ganttVars, configVars >>

\* KeyCode::Backspace in the new-task dialog
new_task_title_pop ==
    /\ Reading /\ Mode = "NewTaskDialog"
    /\ new_task_title' = pop(new_task_title)
    /\ handled("new_task_title.pop")
    /\ UNCHANGED << view_mode, show_new_task, compactVars, active_filter,
                    kanbanVars, settingsVars, projectsVars, ganttVars,
                    storeVars, configVars, running >>

\* KeyCode::Char(c) in the new-task dialog
new_task_title_push ==
    /\ Reading /\ Mode = "NewTaskDialog"
    /\ Len(new_task_title) < MaxBuf
    /\ \E c \in TypedChars : new_task_title' = Append(new_task_title, c)
    /\ handled("new_task_title.push")
    /\ UNCHANGED << view_mode, show_new_task, compactVars, active_filter,
                    kanbanVars, settingsVars, projectsVars, ganttVars,
                    storeVars, configVars, running >>

(***************************************************************************)
(* The new-project dialog.                                                 *)
(***************************************************************************)
\* App::cancel_new_project_dialog
cancel_new_project_dialog ==
    /\ Reading /\ Mode = "NewProjectDialog"
    /\ show_new_project' = FALSE
    /\ new_project_title' = << >>
    /\ handled("cancel_new_project_dialog")
    /\ UNCHANGED << view_mode, compactVars, active_filter, taskDialogVars,
                    kanbanVars, settingsVars, projects_selected, ganttVars,
                    storeVars, configVars, running >>

\* App::create_new_project
create_new_project ==
    /\ Reading /\ Mode = "NewProjectDialog"
    /\ handled("create_new_project")
    /\ IF trim(new_project_title) = << >>
       THEN /\ show_new_project' = FALSE
            /\ UNCHANGED << new_project_title, projects_selected, storeVars,
                            running >>
       ELSE /\ Len(files) < MaxTasks
            /\ \E ok \in BOOLEAN :
                 LET project == new_project(new_v4(files), trim(new_project_title))
                     pushed == Append(tasks, project)
                 IN  IF ok
                     THEN /\ files' \in write_task(files, project)
                          /\ tasks' = pushed
                          /\ show_new_project' = FALSE
                          /\ new_project_title' = << >>
                          /\ projects_selected' =
                                 saturating_sub(Len(get_projects(pushed)), 1)
                          /\ UNCHANGED running
                     ELSE /\ running' = FALSE
                          /\ UNCHANGED << show_new_project, new_project_title,
                                          projects_selected, storeVars >>
    /\ UNCHANGED << view_mode, compactVars, active_filter, taskDialogVars,
                    kanbanVars, settingsVars, ganttVars, configVars >>

\* KeyCode::Backspace in the new-project dialog
new_project_title_pop ==
    /\ Reading /\ Mode = "NewProjectDialog"
    /\ new_project_title' = pop(new_project_title)
    /\ handled("new_project_title.pop")
    /\ UNCHANGED << view_mode, compactVars, active_filter, taskDialogVars,
                    kanbanVars, settingsVars, projects_selected,
                    show_new_project, ganttVars, storeVars, configVars,
                    running >>

\* KeyCode::Char(c) in the new-project dialog
new_project_title_push ==
    /\ Reading /\ Mode = "NewProjectDialog"
    /\ Len(new_project_title) < MaxBuf
    /\ \E c \in TypedChars : new_project_title' = Append(new_project_title, c)
    /\ handled("new_project_title.push")
    /\ UNCHANGED << view_mode, compactVars, active_filter, taskDialogVars,
                    kanbanVars, settingsVars, projects_selected,
                    show_new_project, ganttVars, storeVars, configVars,
                    running >>

(***************************************************************************)
(* The settings edit dialog.                                               *)
(***************************************************************************)
\* App::settings_cancel_edit
settings_cancel_edit ==
    /\ Reading /\ Mode = "SettingsEditDialog"
    /\ settings_editing' = FALSE
    /\ settings_edit_text' = << >>
    /\ handled("settings_cancel_edit")
    /\ UNCHANGED << view_mode, compactVars, active_filter, taskDialogVars,
                    kanbanVars, settings_selected, projectsVars, ganttVars,
                    storeVars, configVars, running >>

\* App::settings_confirm_edit
settings_confirm_edit ==
    /\ Reading /\ Mode = "SettingsEditDialog"
    /\ handled("settings_confirm_edit")
    /\ LET new_name == trim(settings_edit_text)
       IN  IF new_name = << >>
           THEN /\ settings_editing' = FALSE
                /\ settings_edit_text' = << >>
                /\ UNCHANGED << configVars, running >>
           ELSE /\ settings_selected < Len(workstreams)
                     \/ Len(workstreams) < MaxWorkstreams
                /\ workstreams' =
                      IF settings_selected < Len(workstreams)
                      THEN [ workstreams EXCEPT
                               ![settings_selected + 1].name = new_name ]
                      ELSE add_workstream(workstreams, new_name)
                /\ \E ok \in BOOLEAN :
                      IF ok
                      THEN /\ config_file' = workstreams'
                           /\ settings_editing' = FALSE
                           /\ settings_edit_text' = << >>
                           /\ UNCHANGED running
                      ELSE /\ running' = FALSE
                           /\ UNCHANGED << config_file, settings_editing,
                                           settings_edit_text >>
    /\ UNCHANGED << view_mode, compactVars, active_filter, taskDialogVars,
                    kanbanVars, settings_selected, projectsVars, ganttVars,
                    storeVars >>

\* KeyCode::Backspace in the settings edit dialog
settings_edit_text_pop ==
    /\ Reading /\ Mode = "SettingsEditDialog"
    /\ settings_edit_text' = pop(settings_edit_text)
    /\ handled("settings_edit_text.pop")
    /\ UNCHANGED << view_mode, compactVars, active_filter, taskDialogVars,
                    kanbanVars, settings_selected, settings_editing,
                    projectsVars, ganttVars, storeVars, configVars, running >>

\* KeyCode::Char(c) in the settings edit dialog
settings_edit_text_push ==
    /\ Reading /\ Mode = "SettingsEditDialog"
    /\ Len(settings_edit_text) < MaxBuf
    /\ \E c \in TypedChars : settings_edit_text' = Append(settings_edit_text, c)
    /\ handled("settings_edit_text.push")
    /\ UNCHANGED << view_mode, compactVars, active_filter, taskDialogVars,
                    kanbanVars, settings_selected, settings_editing,
                    projectsVars, ganttVars, storeVars, configVars, running >>

(***************************************************************************)
(* The Settings view.                                                      *)
(***************************************************************************)
\* close_settings returning to the Kanban view
close_settings_to_kanban ==
    /\ Reading /\ Mode = "Settings"
    /\ view_mode' = "Kanban"
    /\ handled("close_settings")
    /\ UNCHANGED << compactVars, active_filter, taskDialogVars, kanbanVars,
                    settingsVars, projectsVars, ganttVars, storeVars,
                    configVars, running >>

\* App::close_settings ('q' or Esc)
close_settings ==
    /\ Reading /\ Mode = "Settings"
    /\ view_mode' = "Compact"
    /\ handled("close_settings")
    /\ UNCHANGED << compactVars, active_filter, taskDialogVars, kanbanVars,
                    settingsVars, projectsVars, ganttVars, storeVars,
                    configVars, running >>

\* App::settings_prev (Up or 'k')
settings_prev ==
    /\ Reading /\ Mode = "Settings"
    /\ LET max_items == Len(workstreams) + 1
       IN  settings_selected' =
              IF max_items > 0
              THEN IF settings_selected = 0 THEN max_items - 1
                   ELSE settings_selected - 1
              ELSE settings_selected
    /\ handled("settings_prev")
    /\ UNCHANGED << view_mode, compactVars, active_filter, taskDialogVars,
                    kanbanVars, settings_editing, settings_edit_text,
                    projectsVars, ganttVars, storeVars, configVars, running >>

\* settings_next wrapping one position past the add-new slot
settings_next_past_slot ==
    /\ Reading /\ Mode = "Settings"
    /\ LET max_items == Len(workstreams) + 2
       IN  settings_selected' = (settings_selected + 1) % max_items
    /\ handled("settings_next")
    /\ UNCHANGED << view_mode, compactVars, active_filter, taskDialogVars,
                    kanbanVars, settings_editing, settings_edit_text,
                    projectsVars, ganttVars, storeVars, configVars, running >>

\* App::settings_next (Down or 'j')
settings_next ==
    /\ Reading /\ Mode = "Settings"
    /\ LET max_items == Len(workstreams) + 1
       IN  settings_selected' =
              IF max_items > 0
              THEN (settings_selected + 1) % max_items
              ELSE settings_selected
    /\ handled("settings_next")
    /\ UNCHANGED << view_mode, compactVars, active_filter, taskDialogVars,
                    kanbanVars, settings_editing, settings_edit_text,
                    projectsVars, ganttVars, storeVars, configVars, running >>

\* App::settings_start_edit (Enter)
settings_start_edit ==
    /\ Reading /\ Mode = "Settings"
    /\ settings_editing' = TRUE
    /\ settings_edit_text' =
          IF settings_selected < Len(workstreams)
          THEN workstreams[settings_selected + 1].name
          ELSE << >>
    /\ handled("settings_start_edit")
    /\ UNCHANGED << view_mode, compactVars, active_filter, taskDialogVars,
                    kanbanVars, settings_selected, projectsVars, ganttVars,
                    storeVars, configVars, running >>

\* App::settings_delete ('x' or Delete)
settings_delete ==
    /\ Reading /\ Mode = "Settings"
    /\ handled("settings_delete")
    /\ IF settings_selected < Len(workstreams)
       THEN /\ workstreams' = remove(workstreams, settings_selected)
            /\ \E ok \in BOOLEAN :
                  IF ok
                  THEN /\ config_file' = workstreams'
                       /\ settings_selected' =
                             IF /\ settings_selected >= Len(workstreams')
                                /\ settings_selected > 0
                             THEN settings_selected - 1
                             ELSE settings_selected
                       /\ UNCHANGED running
                  ELSE /\ running' = FALSE
                       /\ UNCHANGED << config_file, settings_selected >>
       ELSE UNCHANGED << configVars, settings_selected, running >>
    /\ UNCHANGED << view_mode, compactVars, active_filter, taskDialogVars,
                    kanbanVars, settings_editing, settings_edit_text,
                    projectsVars, ganttVars, storeVars >>

(***************************************************************************)
(* The Projects view.                                                      *)
(***************************************************************************)
\* App::close_projects (Esc)
close_projects ==
    /\ Reading /\ Mode = "Projects"
    /\ view_mode' = "Compact"
    /\ handled("close_projects")
    /\ UNCHANGED << compactVars, active_filter, taskDialogVars, kanbanVars,
                    settingsVars, projectsVars, ganttVars, storeVars,
                    configVars, running >>

\* App::projects_prev (Up or 'k')
projects_prev ==
    /\ Reading /\ Mode = "Projects"
    /\ LET count == Len(get_projects(tasks))
       IN  projects_selected' =
              IF count > 0
              THEN IF projects_selected = 0 THEN count - 1
                   ELSE projects_selected - 1
              ELSE projects_selected
    /\ handled("projects_prev")
    /\ UNCHANGED << view_mode, compactVars, active_filter, taskDialogVars,
                    kanbanVars, settingsVars, show_new_project,
                    new_project_title, ganttVars, storeVars, configVars,
                    running >>

\* projects_next wrapping one position past the last project
projects_next_past_end ==
    /\ Reading /\ Mode = "Projects"
    /\ LET count == Len(get_projects(tasks))
       IN  projects_selected' =
              IF count > 0 THEN (projects_selected + 1) % (count + 1)
              ELSE projects_selected
    /\ handled("projects_next")
    /\ UNCHANGED << view_mode, compactVars, active_filter, taskDialogVars,
                    kanbanVars, settingsVars, show_new_project,
                    new_project_title, ganttVars, storeVars, configVars,
                    running >>

\* App::projects_next (Down or 'j')
projects_next ==
    /\ Reading /\ Mode = "Projects"
    /\ LET count == Len(get_projects(tasks))
       IN  projects_selected' =
              IF count > 0 THEN (projects_selected + 1) % count
              ELSE projects_selected
    /\ handled("projects_next")
    /\ UNCHANGED << view_mode, compactVars, active_filter, taskDialogVars,
                    kanbanVars, settingsVars, show_new_project,
                    new_project_title, ganttVars, storeVars, configVars,
                    running >>

\* open_project_gantt taking the first project instead of the selected one
open_project_gantt_first ==
    /\ Reading /\ Mode = "Projects"
    /\ LET projects == get_projects(tasks)
       IN  IF projects_selected < Len(projects)
           THEN /\ current_project_id' = Some(projects[1].id)
                /\ view_mode' = "ProjectGantt"
                /\ gantt_selected' = 0
                /\ gantt_scroll_offset' = 0
           ELSE UNCHANGED << current_project_id, view_mode, gantt_selected,
                             gantt_scroll_offset >>
    /\ handled("open_project_gantt")
    /\ UNCHANGED << compactVars, active_filter, taskDialogVars, kanbanVars,
                    settingsVars, projectsVars, storeVars, configVars,
                    running >>

\* App::open_project_gantt (Enter)
open_project_gantt ==
    /\ Reading /\ Mode = "Projects"
    /\ LET projects == get_projects(tasks)
       IN  IF projects_selected < Len(projects)
           THEN /\ current_project_id' = Some(projects[projects_selected + 1].id)
                /\ view_mode' = "ProjectGantt"
                /\ gantt_selected' = 0
                /\ gantt_scroll_offset' = 0
           ELSE UNCHANGED << current_project_id, view_mode, gantt_selected,
                             gantt_scroll_offset >>
    /\ handled("open_project_gantt")
    /\ UNCHANGED << compactVars, active_filter, taskDialogVars, kanbanVars,
                    settingsVars, projectsVars, storeVars, configVars,
                    running >>

\* App::show_new_project_dialog ('n')
show_new_project_dialog ==
    /\ Reading /\ Mode = "Projects"
    /\ show_new_project' = TRUE
    /\ new_project_title' = << >>
    /\ handled("show_new_project_dialog")
    /\ UNCHANGED << view_mode, compactVars, active_filter, taskDialogVars,
                    kanbanVars, settingsVars, projects_selected, ganttVars,
                    storeVars, configVars, running >>

(***************************************************************************)
(* The ProjectGantt view.                                                  *)
(***************************************************************************)
\* close_project_gantt without the reset of the project
close_project_gantt_keeps_project ==
    /\ Reading /\ Mode = "ProjectGantt"
    /\ view_mode' = "Projects"
    /\ handled("close_project_gantt")
    /\ UNCHANGED << compactVars, active_filter, taskDialogVars, kanbanVars,
                    settingsVars, projectsVars, ganttVars, storeVars,
                    configVars, running >>

\* App::close_project_gantt (Esc)
close_project_gantt ==
    /\ Reading /\ Mode = "ProjectGantt"
    /\ view_mode' = "Projects"
    /\ current_project_id' = None
    /\ handled("close_project_gantt")
    /\ UNCHANGED << compactVars, active_filter, taskDialogVars, kanbanVars,
                    settingsVars, projectsVars, gantt_selected,
                    gantt_scroll_offset, storeVars, configVars, running >>

\* App::gantt_prev (Up or 'k')
gantt_prev ==
    /\ Reading /\ Mode = "ProjectGantt"
    /\ LET count == Len(get_project_tasks(tasks, current_project_id))
       IN  gantt_selected' =
              IF count > 0
              THEN IF gantt_selected = 0 THEN count - 1
                   ELSE gantt_selected - 1
              ELSE gantt_selected
    /\ handled("gantt_prev")
    /\ UNCHANGED << view_mode, compactVars, active_filter, taskDialogVars,
                    kanbanVars, settingsVars, projectsVars,
                    current_project_id, gantt_scroll_offset, storeVars,
                    configVars, running >>

\* App::gantt_next (Down or 'j')
gantt_next ==
    /\ Reading /\ Mode = "ProjectGantt"
    /\ LET count == Len(get_project_tasks(tasks, current_project_id))
       IN  gantt_selected' =
              IF count > 0 THEN (gantt_selected + 1) % count
              ELSE gantt_selected
    /\ handled("gantt_next")
    /\ UNCHANGED << view_mode, compactVars, active_filter, taskDialogVars,
                    kanbanVars, settingsVars, projectsVars,
                    current_project_id, gantt_scroll_offset, storeVars,
                    configVars, running >>

\* a left scroll that also puts the cursor back on the first task
gantt_scroll_left_resets_cursor ==
    /\ Reading /\ Mode = "ProjectGantt"
    /\ gantt_scroll_offset' = i32_saturating_sub(gantt_scroll_offset, ScrollStep)
    /\ gantt_selected' = 0
    /\ handled("gantt_scroll_left")
    /\ UNCHANGED << view_mode, compactVars, active_filter, taskDialogVars,
                    kanbanVars, settingsVars, projectsVars,
                    current_project_id, storeVars,
                    configVars, running >>

\* App::gantt_scroll_left (Left or 'h')
gantt_scroll_left ==
    /\ Reading /\ Mode = "ProjectGantt"
    /\ gantt_scroll_offset' = i32_saturating_sub(gantt_scroll_offset, ScrollStep)
    /\ handled("gantt_scroll_left")
    /\ UNCHANGED << view_mode, compactVars, active_filter, taskDialogVars,
                    kanbanVars, settingsVars, projectsVars,
                    current_project_id, gantt_selected, storeVars,
                    configVars, running >>

\* App::gantt_scroll_right (Right or 'l')
\* `+= 7` on an i32: past I32_MAX a build with overflow checks panics (the
\* loop ends), a build without them wraps around
gantt_scroll_right ==
    /\ Reading /\ Mode = "ProjectGantt"
    /\ IF gantt_scroll_offset <= I32_MAX - ScrollStep
       THEN /\ gantt_scroll_offset' = gantt_scroll_offset + ScrollStep
            /\ running' = running
       ELSE \/ /\ gantt_scroll_offset' = gantt_scroll_offset
               /\ running' = FALSE
            \/ /\ gantt_scroll_offset' =
                      I32_MIN + (ScrollStep - 1 - (I32_MAX - gantt_scroll_offset))
               /\ running' = running
    /\ handled("gantt_scroll_right")
    /\ UNCHANGED << view_mode, compactVars, active_filter, taskDialogVars,
                    kanbanVars, settingsVars, projectsVars,
                    current_project_id, gantt_selected, storeVars,
                    configVars >>

(***************************************************************************)
(* Keys of the Compact and Kanban views handled by run_app itself.         *)
(***************************************************************************)
\* KeyCode::Char('q') => return Ok(()) (Projects, ProjectGantt, Compact, Kanban)
quit ==
    /\ Reading /\ Mode \in {"Projects", "ProjectGantt", "Compact", "Kanban"}
    /\ running' = FALSE
    /\ handled("quit")
    /\ UNCHANGED << view_mode, compactVars, active_filter, taskDialogVars,
                    kanbanVars, settingsVars, projectsVars, ganttVars,
                    storeVars, configVars >>

\* App::toggle_view (Tab)
toggle_view ==
    /\ Reading /\ Mode \in {"Compact", "Kanban"}
    /\ view_mode' = CASE view_mode = "Kanban" -> "Compact"
                      [] view_mode = "Compact" -> "Kanban"
                      [] view_mode = "Settings" -> "Compact"
                      [] view_mode = "Projects" -> "Compact"
                      [] view_mode = "ProjectGantt" -> "Projects"
    /\ handled("toggle_view")
    /\ UNCHANGED << compactVars, active_filter, taskDialogVars, kanbanVars,
                    settingsVars, projectsVars, ganttVars, storeVars,
                    configVars, running >>

\* App::show_new_task_dialog ('n')
show_new_task_dialog ==
    /\ Reading /\ Mode \in {"Compact", "Kanban"}
    /\ show_new_task' = TRUE
    /\ new_task_title' = << >>
    /\ handled("show_new_task_dialog")
    /\ UNCHANGED << view_mode, compactVars, active_filter, kanbanVars,
                    settingsVars, projectsVars, ganttVars, storeVars,
                    configVars, running >>

\* App::refresh_tasks ('r')
refresh_tasks ==
    /\ Reading /\ Mode \in {"Compact", "Kanban"}
    /\ \E ok \in BOOLEAN :
          IF ok
          THEN tasks' = load_all_tasks(files) /\ UNCHANGED running
          ELSE running' = FALSE /\ UNCHANGED tasks
    /\ handled("refresh_tasks")
    /\ UNCHANGED << view_mode, compactVars, active_filter, taskDialogVars,
                    kanbanVars, settingsVars, projectsVars, ganttVars, files,
                    configVars >>

\* open_settings reached by 's' while a dialog is open
open_settings_through_dialog ==
    /\ Reading /\ view_mode \in {"Compact", "Kanban"}
    /\ view_mode' = "Settings"
    /\ settings_selected' = 0
    /\ settings_editing' = FALSE
    /\ settings_edit_text' = << >>
    /\ handled("open_settings")
    /\ UNCHANGED << compactVars, active_filter, taskDialogVars, kanbanVars,
                    projectsVars, ganttVars, storeVars, configVars, running >>

\* App::open_settings ('s')
open_settings ==
    /\ Reading /\ Mode \in {"Compact", "Kanban"}
    /\ view_mode' = "Settings"
    /\ settings_selected' = 0
    /\ settings_editing' = FALSE
    /\ settings_edit_text' = << >>
    /\ handled("open_settings")
    /\ UNCHANGED << compactVars, active_filter, taskDialogVars, kanbanVars,
                    projectsVars, ganttVars, storeVars, configVars, running >>

\* App::open_projects ('p')
open_projects ==
    /\ Reading /\ Mode \in {"Compact", "Kanban"}
    /\ view_mode' = "Projects"
    /\ projects_selected' = 0
    /\ handled("open_projects")
    /\ UNCHANGED << compactVars, active_filter, taskDialogVars, kanbanVars,
                    settingsVars, show_new_project, new_project_title,
                    ganttVars, storeVars, configVars, running >>

\* App::clear_filters ('0')
clear_filters ==
    /\ Reading /\ Mode \in {"Compact", "Kanban"}
    /\ active_filter' = None
    /\ selected_index' = 0
    /\ handled("clear_filters")
    /\ UNCHANGED << view_mode, taskDialogVars, kanbanVars, settingsVars,
                    projectsVars, ganttVars, storeVars, configVars, running >>

\* App::filter_by_tag (the shortcut key of a workstream)
filter_by_tag ==
    /\ Reading /\ Mode \in {"Compact", "Kanban"}
    /\ \E key \in Chars :
          /\ is_shortcut(key)
          /\ active_filter' = Some(get_workstream_by_key(workstreams, key)[1].name)
    /\ selected_index' = 0
    /\ handled("filter_by_tag")
    /\ UNCHANGED << view_mode, taskDialogVars, kanbanVars, settingsVars,
                    projectsVars, ganttVars, storeVars, configVars, running >>

(***************************************************************************)
(* handle_view_keys: the Compact view.                                     *)
(***************************************************************************)
\* App::previous_task (Up or 'k')
previous_task ==
    /\ Reading /\ Mode = "Compact"
    /\ \E key \in {"Up", "k"} : is_view_key(key)
    /\ LET filtered == filtered_tasks(tasks, active_filter)
       IN  selected_index' =
              IF filtered # << >>
              THEN IF selected_index = 0 THEN Len(filtered) - 1
                   ELSE selected_index - 1
              ELSE selected_index
    /\ handled("previous_task")
    /\ UNCHANGED << view_mode, active_filter, taskDialogVars, kanbanVars,
                    settingsVars, projectsVars, ganttVars, storeVars,
                    configVars, running >>

\* App::next_task (Down or 'j')
next_task ==
    /\ Reading /\ Mode = "Compact"
    /\ \E key \in {"Down", "j"} : is_view_key(key)
    /\ LET filtered == filtered_tasks(tasks, active_filter)
       IN  selected_index' =
              IF filtered # << >>
              THEN (selected_index + 1) % Len(filtered)
              ELSE selected_index
    /\ handled("next_task")
    /\ UNCHANGED << view_mode, active_filter, taskDialogVars, kanbanVars,
                    settingsVars, projectsVars, ganttVars, storeVars,
                    configVars, running >>

\* App::toggle_task_selection (Enter): does nothing
toggle_task_selection ==
    /\ Reading /\ Mode = "Compact"
    /\ is_view_key("Enter")
    /\ handled("toggle_task_selection")
    /\ UNCHANGED << view_mode, compactVars, active_filter, taskDialogVars,
                    kanbanVars, settingsVars, projectsVars, ganttVars,
                    storeVars, configVars, running >>

\* mark_task_done and archive_task: the item under the Compact cursor gets
\* the status, then its file is written
compact_set_status(status) ==
    LET filtered == filtered_tasks(tasks, active_filter)
    IN  IF selected_index < Len(filtered)
        THEN LET task_id == filtered[selected_index + 1].id
                 updated == set_status(tasks, task_id, status)
             IN  /\ tasks' = updated
                 /\ \E ok \in BOOLEAN :
                       IF ok
                       THEN /\ files' \in write_task(files, find_task(updated, task_id))
                            /\ UNCHANGED running
                       ELSE /\ running' = FALSE
                            /\ UNCHANGED files
        ELSE UNCHANGED << storeVars, running >>

\* App::mark_task_done ('d')
mark_task_done ==
    /\ Reading /\ Mode = "Compact"
    /\ is_view_key("d")
    /\ compact_set_status("done")
    /\ handled("mark_task_done")
    /\ UNCHANGED << view_mode, compactVars, active_filter, taskDialogVars,
                    kanbanVars, settingsVars, projectsVars, ganttVars,
                    configVars >>

\* App::archive_task ('a')
archive_task ==
    /\ Reading /\ Mode = "Compact"
    /\ is_view_key("a")
    /\ compact_set_status("archived")
    /\ handled("archive_task")
    /\ UNCHANGED << view_mode, compactVars, active_filter, taskDialogVars,
                    kanbanVars, settingsVars, projectsVars, ganttVars,
                    configVars >>

(***************************************************************************)
(* handle_view_keys: the Kanban view.                                      *)
(***************************************************************************)
\* clamp_row comparing with > instead of >=
clamp_row_off_by_one(row, task_count) ==
    IF row > task_count THEN saturating_sub(task_count, 1) ELSE row

\* the clamp of kanban_move_left and kanban_move_right
clamp_row(row, task_count) ==
    IF row >= task_count THEN saturating_sub(task_count, 1) ELSE row

\* the column kanban_move_left selects
column_left(col) == IF col = 0 THEN 3 ELSE col - 1

\* column_right without the wrap
column_right_no_wrap(col) == col + 1

\* the column kanban_move_right selects
column_right(col) == (col + 1) % KanbanColumns

\* App::kanban_move_left (Left or 'h')
kanban_move_left ==
    /\ Reading /\ Mode = "Kanban"
    /\ \E key \in {"Left", "h"} : is_view_key(key)
    /\ kanban_column' = column_left(kanban_column)
    /\ kanban_row' = clamp_row(kanban_row,
           Len(kanban_column_tasks(tasks, active_filter, kanban_column')))
    /\ handled("kanban_move_left")
    /\ UNCHANGED << view_mode, compactVars, active_filter, taskDialogVars,
                    settingsVars, projectsVars, ganttVars, storeVars,
                    configVars, running >>

\* App::kanban_move_right (Right or 'l')
kanban_move_right ==
    /\ Reading /\ Mode = "Kanban"
    /\ \E key \in {"Right", "l"} : is_view_key(key)
    /\ kanban_column' = column_right(kanban_column)
    /\ kanban_row' = clamp_row(kanban_row,
           Len(kanban_column_tasks(tasks, active_filter, kanban_column')))
    /\ handled("kanban_move_right")
    /\ UNCHANGED << view_mode, compactVars, active_filter, taskDialogVars,
                    settingsVars, projectsVars, ganttVars, storeVars,
                    configVars, running >>

\* kanban_move_up stopping at the first row instead of wrapping to the last
kanban_move_up_no_wrap ==
    /\ Reading /\ Mode = "Kanban"
    /\ \E key \in {"Up", "k"} : is_view_key(key)
    /\ kanban_row' = saturating_sub(kanban_row, 1)
    /\ handled("kanban_move_up")
    /\ UNCHANGED << view_mode, compactVars, active_filter, taskDialogVars,
                    kanban_column, settingsVars, projectsVars, ganttVars,
                    storeVars, configVars, running >>

\* App::kanban_move_up (Up or 'k')
kanban_move_up ==
    /\ Reading /\ Mode = "Kanban"
    /\ \E key \in {"Up", "k"} : is_view_key(key)
    /\ LET task_count ==
              Len(kanban_column_tasks(tasks, active_filter, kanban_column))
       IN  kanban_row' =
              IF task_count > 0
              THEN IF kanban_row = 0 THEN task_count - 1 ELSE kanban_row - 1
              ELSE kanban_row
    /\ handled("kanban_move_up")
    /\ UNCHANGED << view_mode, compactVars, active_filter, taskDialogVars,
                    kanban_column, settingsVars, projectsVars, ganttVars,
                    storeVars, configVars, running >>

\* App::kanban_move_down (Down or 'j')
kanban_move_down ==
    /\ Reading /\ Mode = "Kanban"
    /\ \E key \in {"Down", "j"} : is_view_key(key)
    /\ LET task_count ==
              Len(kanban_column_tasks(tasks, active_filter, kanban_column))
       IN  kanban_row' =
              IF task_count > 0 THEN (kanban_row + 1) % task_count
              ELSE kanban_row
    /\ handled("kanban_move_down")
    /\ UNCHANGED << view_mode, compactVars, active_filter, taskDialogVars,
                    kanban_column, settingsVars, projectsVars, ganttVars,
                    storeVars, configVars, running >>

\* kanban_mark_done and kanban_archive_task without the adjustment of the
\* row
kanban_set_status_keeps_row(status) ==
    LET selected == kanban_selected_task(tasks, active_filter, kanban_column,
                                         kanban_row)
    IN  IF selected # None
        THEN LET task_id == selected[1].id
                 updated == set_status(tasks, task_id, status)
             IN  /\ tasks' = updated
                 /\ \E ok \in BOOLEAN :
                       IF ok
                       THEN /\ files' \in write_task(files, find_task(updated, task_id))
                            /\ UNCHANGED << kanban_row, running >>
                       ELSE /\ running' = FALSE
                            /\ UNCHANGED << files, kanban_row >>
        ELSE UNCHANGED << storeVars, kanban_row, running >>

\* kanban_mark_done and kanban_archive_task: the item under the Kanban
\* cursor gets the status, its file is written, the row is adjusted
kanban_set_status(status) ==
    LET selected == kanban_selected_task(tasks, active_filter, kanban_column,
                                         kanban_row)
    IN  IF selected # None
        THEN LET task_id == selected[1].id
                 updated == set_status(tasks, task_id, status)
                 new_count == Len(kanban_column_tasks(updated, active_filter,
                                                      kanban_column))
             IN  /\ tasks' = updated
                 /\ \E ok \in BOOLEAN :
                       IF ok
                       THEN /\ files' \in write_task(files, find_task(updated, task_id))
                            /\ kanban_row' =
                                  IF kanban_row >= new_count /\ new_count > 0
                                  THEN new_count - 1
                                  ELSE kanban_row
                            /\ UNCHANGED running
                       ELSE /\ running' = FALSE
                            /\ UNCHANGED << files, kanban_row >>
        ELSE UNCHANGED << storeVars, kanban_row, running >>

\* App::kanban_mark_done ('d')
kanban_mark_done ==
    /\ Reading /\ Mode = "Kanban"
    /\ is_view_key("d")
    /\ kanban_set_status("done")
    /\ handled("kanban_mark_done")
    /\ UNCHANGED << view_mode, compactVars, active_filter, taskDialogVars,
                    kanban_column, settingsVars, projectsVars, ganttVars,
                    configVars >>

\* App::kanban_archive_task ('a')
kanban_archive_task ==
    /\ Reading /\ Mode = "Kanban"
    /\ is_view_key("a")
    /\ kanban_set_status("archived")
    /\ handled("kanban_archive_task")
    /\ UNCHANGED << view_mode, compactVars, active_filter, taskDialogVars,
                    kanban_column, settingsVars, projectsVars, ganttVars,
                    configVars >>

(***************************************************************************)
(* Keys no arm of the dispatch matches (the `_ => {}` arms).               *)
(***************************************************************************)
\* the keys each branch of run_app and handle_view_keys matches
matched_keys(mode) ==
    CASE mode \in {"NewTaskDialog", "NewProjectDialog", "SettingsEditDialog"} ->
             {"Esc", "Enter", "Backspace"} \cup Chars
      [] mode = "Settings" ->
             {"q", "Esc", "Up", "k", "Down", "j", "Enter", "x", "Delete"}
      [] mode = "Projects" ->
             {"q", "Esc", "Up", "k", "Down", "j", "Enter", "n"}
      [] mode = "ProjectGantt" ->
             {"q", "Esc", "Up", "k", "Down", "j", "Left", "h", "Right", "l"}
      [] mode = "Compact" ->
             {"Tab"} \cup GlobalChars \cup { c \in Chars : is_shortcut(c) }
                 \cup {"Up", "k", "Down", "j", "Enter", "d", "a"}
      [] mode = "Kanban" ->
             {"Tab"} \cup GlobalChars \cup { c \in Chars : is_shortcut(c) }
                 \cup {"Up", "k", "Down", "j", "Left", "h", "Right", "l",
                       "d", "a"}

ignore_key ==
    /\ Reading
    /\ Keys \ matched_keys(Mode) # {}
    /\ handled("ignored")
    /\ UNCHANGED << view_mode, compactVars, active_filter, taskDialogVars,
                    kanbanVars, settingsVars, projectsVars, ganttVars,
                    storeVars, configVars, running >>

(***************************************************************************)
(* The event loop of run_app: one key event per step.                      *)
(***************************************************************************)
Next ==
    \/ cancel_new_task_dialog
    \/ create_new_task
    \/ new_task_title_pop
    \/ new_task_title_push
    \/ cancel_new_project_dialog
    \/ create_new_project
    \/ new_project_title_pop
    \/ new_project_title_push
    \/ settings_cancel_edit
    \/ settings_confirm_edit
    \/ settings_edit_text_pop
    \/ settings_edit_text_push
    \/ close_settings
    \/ settings_prev
    \/ settings_next
    \/ settings_start_edit
    \/ settings_delete
    \/ quit
    \/ close_projects
    \/ projects_prev
    \/ projects_next
    \/ open_project_gantt
    \/ show_new_project_dialog
    \/ close_project_gantt
    \/ gantt_prev
    \/ gantt_next
    \/ gantt_scroll_left
    \/ gantt_scroll_right
    \/ toggle_view
    \/ show_new_task_dialog
    \/ refresh_tasks
    \/ open_settings
    \/ open_projects
    \/ clear_filters
    \/ filter_by_tag
    \/ previous_task
    \/ next_task
    \/ toggle_task_selection
    \/ mark_task_done
    \/ archive_task
    \/ kanban_move_left
    \/ kanban_move_right
    \/ kanban_move_up
    \/ kanban_move_down
    \/ kanban_mark_done
    \/ kanban_archive_task
    \/ ignore_key

Spec == Init /\ [][Next]_vars

(***************************************************************************)
(* The task store on its own: a client of Storage (the App of              *)
(* src/tui/app.rs, the test of src/storage.rs) calls write_task,           *)
(* parse_file, load_all_tasks and delete_task with its items, while other  *)
(* programs put files into the data directory or remove it.  The file      *)
(* system itself does not fail here; the failures the event loop sees are  *)
(* in Spec.                                                                *)
(***************************************************************************)
\* Storage calls and file-system events in one run
MaxOps == 3
\* items the client holds at a time
MaxItems == 2
\* files the data directory holds at a time
MaxFiles == 3

\* the titles the client gives its items: plain text, and text holding the
\* header delimiter
Titles == { << "a" >>, << "a", "-", "-", "-" >> }

\* what the client puts into a new item: each title without body and tags,
\* a body padded with whitespace under a tag, a body holding the header
\* delimiter
Drafts ==
    { [ title |-> title, body |-> << >>, tags |-> << >> ] : title \in Titles }
      \cup { [ title |-> << "a" >>, body |-> << " ", "b", "\n" >>,
               tags |-> << << "w" >> >> ],
             [ title |-> << "a" >>, body |-> << "-", "-", "-", "b" >>,
               tags |-> << >> ] }

\* a well-formed file that leaves the defaulted fields out
TextMinimal ==
    << "-", "-", "-", "\n",
       "id:", "u3", "\n", "type:", "note", "\n", "title:", "a", "\n",
       "status:", "next", "\n", "created_at:", "t0", "\n",
       "-", "-", "-", "\n", "\n", "b", "\n" >>

\* the same file without its closing delimiter
TextUnclosed ==
    << "-", "-", "-", "\n",
       "id:", "u3", "\n", "type:", "note", "\n", "title:", "a", "\n",
       "status:", "next", "\n", "created_at:", "t0", "\n", "\n", "b", "\n" >>

\* a header with a status that Status does not have
TextBadStatus ==
    << "-", "-", "-", "\n",
       "id:", "u3", "\n", "type:", "note", "\n", "title:", "a", "\n",
       "status:", "later", "\n", "created_at:", "t0", "\n",
       "-", "-", "-", "\n", "\n", "b", "\n" >>

\* a well-formed file with a key that Frontmatter has no field for
TextExtraKey ==
    << "-", "-", "-", "\n",
       "id:", "u3", "\n", "type:", "note", "\n", "title:", "a", "\n",
       "status:", "next", "\n", "created_at:", "t0", "\n",
       "color:", "red", "\n",
       "-", "-", "-", "\n", "\n", "b", "\n" >>

\* the files other programs put into the data directory
ForeignFiles ==
    { [ path |-> [ stem |-> "x", ext |-> "md" ], content |-> TextMinimal ],
      [ path |-> [ stem |-> "w", ext |-> "md" ], content |-> TextExtraKey ],
      [ path |-> [ stem |-> "y", ext |-> "md" ], content |-> TextUnclosed ],
      [ path |-> [ stem |-> "z", ext |-> "md" ], content |-> TextBadStatus ],
      [ path |-> [ stem |-> "x", ext |-> "txt" ], content |-> TextMinimal ] }

\* the ids of the client's new items, which are interchangeable: a new
\* item gets the first one that is unused
UuidOrder == << "u1", "u2", "u3" >>

\* the id is neither held by the client nor the name of a file
unused(id) ==
    /\ \A t \in items : t.frontmatter.id # id
    /\ entry_index(dir, md_path(id)) = 0

StoreReady == nops < MaxOps

\* the call op was made with the item and the path and returned result
called(op, arg, path, result) ==
    /\ nops' = nops + 1
    /\ outcome' = [ op |-> op, arg |-> arg, path |-> path, result |-> result ]
    /\ UNCHANGED << appVars, timelineVars >>

\* the items the client hands to write_task: an item it holds; a new one
\* (TaskItem::new, then the body and the tags set, as create_new_task of
\* src/tui/app.rs and the test of src/storage.rs do); a held one with its
\* status or title set (as mark_task_done does).  held is the item the
\* written one takes the place of.
WriteInputs ==
    { [ held |-> { t }, item |-> t ] : t \in items }
      \cup { [ held |-> { },
               item |-> [ TaskItem_new(id, now, draft.title, "task") EXCEPT
                            !.body = draft.body,
                            !.frontmatter.tags = draft.tags ] ] :
               id \in { UuidOrder[k] : k \in { k \in 1..Len(UuidOrder) :
                         /\ unused(UuidOrder[k])
                         /\ \A j \in 1..(k - 1) : ~ unused(UuidOrder[j]) } },
               now \in { "t0" }, draft \in Drafts }
      \cup UNION { { [ held |-> { t }, item |-> u ] :
                       u \in ({ [ t EXCEPT !.frontmatter.status = "done" ] }
                                 \cup { [ t EXCEPT !.frontmatter.title = title ] :
                                          title \in Titles }) \ { t } } :
                    t \in items }

\* Storage::write_task(item); the client keeps the item
store_write_task ==
    /\ StoreReady
    /\ \E input \in WriteInputs :
          LET t == input.item
              path == md_path(t.frontmatter.id)
          IN  /\ items' = (items \ input.held) \cup { t }
              /\ Cardinality(items') <= MaxItems
              /\ IF dir_exists
                 THEN /\ entry_index(dir, path) # 0 \/ Len(dir) < MaxFiles
                      /\ dir' \in Storage_write_task(dir, t)
                      /\ called("write_task", << t >>, path,
                                Ok(NoItem, << >>))
                 ELSE /\ dir' = dir
                      /\ called("write_task", << t >>, path,
                                Err("Failed to write task file"))
    /\ UNCHANGED dir_exists

\* Storage::parse_file(path) on a file of the data directory; the client
\* keeps the item it gets
store_parse_file ==
    /\ StoreReady
    /\ \E i \in 1..Len(dir) :
          LET result == Storage_parse_file(dir, dir[i].path)
          IN  /\ called("parse_file", NoItem, dir[i].path, result)
              /\ items' = IF result.ok /\ Cardinality(items) < MaxItems
                          THEN items \cup { result.item[1] }
                          ELSE items
    /\ UNCHANGED << dir_exists, dir >>

\* Storage::load_all_tasks()
store_load_all_tasks ==
    /\ StoreReady
    /\ called("load_all_tasks", NoItem, EmptyPath,
              Storage_load_all_tasks(dir_exists, dir))
    /\ UNCHANGED << dir_exists, dir, items >>

\* Storage::delete_task(item)
store_delete_task ==
    /\ StoreReady
    /\ \E t \in items :
          /\ dir' = Storage_delete_task(dir, t).dir
          /\ called("delete_task", << t >>, t.file_path,
                    Storage_delete_task(dir, t).result)
    /\ UNCHANGED << dir_exists, items >>

\* another program puts a file into the data directory
put_foreign_file ==
    /\ StoreReady /\ dir_exists /\ Len(dir) < MaxFiles
    /\ \E f \in ForeignFiles :
          /\ entry_index(dir, f.path) = 0
          /\ \E pos \in 1..(Len(dir) + 1) : dir' = insert_at(dir, pos, f)
          /\ called("put", NoItem, f.path, Ok(NoItem, << >>))
    /\ UNCHANGED << dir_exists, items >>

\* the data directory is removed with everything in it
remove_data_dir ==
    /\ StoreReady /\ dir_exists
    /\ dir_exists' = FALSE
    /\ dir' = << >>
    /\ called("remove_dir", NoItem, EmptyPath, Ok(NoItem, << >>))
    /\ UNCHANGED items

\* Storage::new on the data directory, before any call
StoreInit ==
    Init /\ files = StoreEmpty /\ config_file = InitialWorkstreams
         /\ client = None

StoreNext ==
    \/ store_write_task
    \/ store_parse_file
    \/ store_load_all_tasks
    \/ store_delete_task
    \/ put_foreign_file
    \/ remove_data_dir

SpecStore == StoreInit /\ [][StoreNext]_vars

(***************************************************************************)
(* Programmatic listing: Storage::list_tasks over a data directory that    *)
(* holds the files of five items, in any listing order.                    *)
(***************************************************************************)
\* a stored item with the given fields
listed_item(id, item_type, status, priority, tags, created_at) ==
    [ TaskItem_new(id, created_at, << "a" >>, item_type) EXCEPT
        !.frontmatter.status = status,
        !.frontmatter.priority = priority,
        !.frontmatter.tags = tags ]

\* A{w}, B{w,u}, C{p,u}, an item tagged W, and a second one tagged {w,u};
\* B and C have the same priority and the same created_at
ListItems ==
    { listed_item("u1", "task", "active", "high", << << "w" >> >>, "t0"),
      listed_item("u2", "task", "active", "medium",
                  << << "w" >>, << "u" >> >>, "t1"),
      listed_item("u3", "task", "done", "medium",
                  << << "p" >>, << "u" >> >>, "t1"),
      listed_item("u4", "note", "active", "low", << << "W" >> >>, "t2"),
      listed_item("u5", "task", "next", "high",
                  << << "u" >>, << "w" >> >>, "t2") }

\* the files of the items in the order of the sequence
RECURSIVE files_of(_)
files_of(ts) ==
    IF ts = << >> THEN << >>
    ELSE << [ path |-> md_path(Head(ts).frontmatter.id),
              content |-> Storage_serialize_task(Head(ts)) ] >>
            \o files_of(Tail(ts))

\* the listings of the data directory: the five files in every order, and
\* the empty directory
ListStores ==
    { << >> } \cup
    { ts \in [ 1..Cardinality(ListItems) -> ListItems ] :
        \A i, j \in 1..Cardinality(ListItems) : ts[i] = ts[j] => i = j }

\* the TaskFilter values of the callers
Filters ==
    [ status : { None, Some("active") },
      item_type : { None, Some("task") },
      tags : { << >>, << << "w" >> >>, << << "u" >> >>,
               << << "w" >>, << "u" >> >> },
      limit : { None, Some(0), Some(2), Some(7) } ]

\* Storage::list_tasks(filter), the one call of a run
list_tasks ==
    /\ outcome.op = "none"
    /\ \E filter \in Filters :
          outcome' = [ op |-> "list_tasks", arg |-> << filter >>,
                       path |-> EmptyPath,
                       result |-> Storage_list_tasks(dir_exists, dir, filter) ]
    /\ UNCHANGED << appVars, dir_exists, dir, items, nops, timelineVars >>

\* Storage::new on a data directory that holds the files
ListInit ==
    /\ AppInit /\ files = StoreEmpty /\ config_file = InitialWorkstreams
    /\ client = None
    /\ dir_exists = TRUE
    /\ \E ts \in ListStores :
          /\ dir = files_of(ts)
          /\ items = { ts[i] : i \in 1..Len(ts) }
    /\ outcome = NoOutcome
    /\ nops = 0
    /\ TimelineInit

ListNext == list_tasks

SpecList == ListInit /\ [][ListNext]_vars

(***************************************************************************)
(* The request shim (src/mcp/tools.rs): update_task and complete_task on   *)
(* the files of the data directory.  A JSON value is its kind with the     *)
(* text of a string or the strings of an array.                            *)
(***************************************************************************)
json_string(text) == [ json |-> "string", text |-> text, elems |-> << >> ]
json_number == [ json |-> "number", text |-> << >>, elems |-> << >> ]
json_array(elems) == [ json |-> "array", text |-> << >>, elems |-> elems ]

\* Value::as_str
as_str(value) == IF value.json = "string" THEN Some(value.text) ELSE None

\* Uuid::parse_str
Uuid_parse_str(id_str) == IF id_str \in Uuids THEN Some(id_str) ELSE None

\* what a tool returns: Ok, or Err with its message, and the item it hands
\* to write_task
ToolOk(task) == [ ok |-> TRUE, err |-> "", task |-> << task >> ]
ToolErr(msg) == [ ok |-> FALSE, err |-> msg, task |-> << >> ]

\* iter_mut().find(|t| t.frontmatter.id == id)
find_by_id(loaded, id) ==
    IF \E i \in 1..Len(loaded) : loaded[i].frontmatter.id = id
    THEN << loaded[CHOOSE i \in 1..Len(loaded) :
                      /\ loaded[i].frontmatter.id = id
                      /\ \A j \in 1..(i - 1) : loaded[j].frontmatter.id # id] >>
    ELSE << >>

\* the match on field of update_task taking an unknown status for Active
update_field_lenient(task, field, value) ==
    IF field = << "title" >>
    THEN IF as_str(value) = None THEN ToolErr("Invalid title")
         ELSE ToolOk([ task EXCEPT !.frontmatter.title = as_str(value)[1] ])
    ELSE IF field = << "status" >>
    THEN IF as_str(value) = None THEN ToolErr("Invalid status")
         ELSE IF \E st \in Statuses : as_str(value)[1] = << st >>
              THEN ToolOk([ task EXCEPT
                              !.frontmatter.status = as_str(value)[1][1] ])
              ELSE ToolOk([ task EXCEPT !.frontmatter.status = "active" ])
    ELSE IF field = << "priority" >>
    THEN IF as_str(value) = None THEN ToolErr("Invalid priority")
         ELSE IF \E pr \in Priorities : as_str(value)[1] = << pr >>
              THEN ToolOk([ task EXCEPT
                              !.frontmatter.priority = as_str(value)[1][1] ])
              ELSE ToolErr("Invalid priority value")
    ELSE IF field = << "notes" >>
    THEN IF as_str(value) = None THEN ToolErr("Invalid notes")
         ELSE ToolOk([ task EXCEPT
                         !.body = @ \o << "\n", "\n" >> \o as_str(value)[1] ])
    ELSE ToolErr("Unknown field")

\* the match on field of update_task
update_field(task, field, value) ==
    IF field = << "title" >>
    THEN IF as_str(value) = None THEN ToolErr("Invalid title")
         ELSE ToolOk([ task EXCEPT !.frontmatter.title = as_str(value)[1] ])
    ELSE IF field = << "status" >>
    THEN IF as_str(value) = None THEN ToolErr("Invalid status")
         ELSE IF \E st \in Statuses : as_str(value)[1] = << st >>
              THEN ToolOk([ task EXCEPT
                              !.frontmatter.status = as_str(value)[1][1] ])
              ELSE ToolErr("Invalid status value")
    ELSE IF field = << "priority" >>
    THEN IF as_str(value) = None THEN ToolErr("Invalid priority")
         ELSE IF \E pr \in Priorities : as_str(value)[1] = << pr >>
              THEN ToolOk([ task EXCEPT
                              !.frontmatter.priority = as_str(value)[1][1] ])
              ELSE ToolErr("Invalid priority value")
    ELSE IF field = << "notes" >>
    THEN IF as_str(value) = None THEN ToolErr("Invalid notes")
         ELSE ToolOk([ task EXCEPT
                         !.body = @ \o << "\n", "\n" >> \o as_str(value)[1] ])
    ELSE ToolErr("Unknown field")

\* update_task up to its write
tools_update_task(exists, d, args) ==
    IF Uuid_parse_str(args.id) = None THEN ToolErr("Invalid UUID")
    ELSE LET found == find_by_id(Storage_load_all_tasks(exists, d).loaded,
                                 Uuid_parse_str(args.id)[1])
         IN  IF found = << >> THEN ToolErr("Task not found")
             ELSE update_field(found[1], args.field, args.value)

\* complete_task up to its write
tools_complete_task(exists, d, args) ==
    IF Uuid_parse_str(args.id) = None THEN ToolErr("Invalid UUID")
    ELSE LET found == find_by_id(Storage_load_all_tasks(exists, d).loaded,
                                 Uuid_parse_str(args.id)[1])
         IN  IF found = << >> THEN ToolErr("Task not found")
             ELSE ToolOk([ found[1] EXCEPT !.frontmatter.status = "done" ])

\* Value::as_array followed by filter_map(as_str): the strings of an array
strings_of(value) ==
    IF value.json # "array" THEN None
    ELSE Some(SelectSeq(value.elems, LAMBDA e : e.json = "string"))

\* args.get(name).and_then(as_str)
str_arg(arg) == IF arg = None THEN None ELSE as_str(arg[1])

\* create_task up to its write: the title and the fields of the enricher's
\* record for raw_input, or the title argument; TaskItem::new with the id
\* and the instant it draws; the explicit arguments over the enriched fields
tools_create_task(args, enriched, id, now) ==
    IF str_arg(args.raw_input) = None /\ str_arg(args.title) = None
    THEN ToolErr("Missing raw_input or title")
    ELSE LET e == IF str_arg(args.raw_input) # None THEN enriched
                  ELSE simple(str_arg(args.title)[1])
             task == TaskItem_new(id, now, e.title, "task")
             context == str_arg(args.context)
             due_date == str_arg(args.due_date)
             priority == str_arg(args.priority)
             tags == IF args.tags = None THEN None ELSE strings_of(args.tags[1])
         IN  ToolOk([ task EXCEPT
                 !.frontmatter.due_date =
                     IF due_date # None THEN Some(due_date[1][1])
                     ELSE IF e.due_date # None THEN e.due_date ELSE @,
                 !.frontmatter.priority =
                     IF priority # None
                     THEN IF priority[1] = << "h", "i", "g", "h" >> THEN "high"
                          ELSE IF priority[1] = << "l", "o", "w" >> THEN "low"
                          ELSE "medium"
                     ELSE IF e.priority # None
                          THEN priority_of_word(e.priority[1]) ELSE @,
                 !.frontmatter.tags =
                     IF tags # None
                     THEN [ i \in 1..Len(tags[1]) |-> tags[1][i].text ]
                     ELSE IF e.tags # << >> THEN e.tags ELSE @,
                 !.body =
                     IF context # None THEN context[1]
                     ELSE IF e.context # None THEN e.context[1] ELSE @ ])

\* the arguments of the create_task requests: a member is absent or a JSON
\* value
create_args(raw_input, title, context, due_date, priority, tags) ==
    [ raw_input |-> raw_input, title |-> title, context |-> context,
      due_date |-> due_date, priority |-> priority, tags |-> tags ]
CreateArgs ==
    { create_args(None, Some(json_string(<< "a" >>)), None, None, None, None),
      create_args(None, Some(json_string(<< "a", "-", "-", "-" >>)),
                  None, None, None, None),
      create_args(None, Some(json_string(<< "a" >>)),
                  Some(json_string(<< " ", "b", "\n" >>)), None, None,
                  Some(json_array(<< json_string(<< "w" >>), json_number >>))),
      create_args(None, Some(json_string(<< "a" >>)), None,
                  Some(json_string(<< "2025-03-10" >>)),
                  Some(json_string(<< "h", "i", "g", "h" >>)), None),
      create_args(None, Some(json_string(<< "a" >>)), None, None,
                  Some(json_string(<< "H", "i", "g", "h" >>)), None),
      create_args(Some(json_string(<< "q" >>)), Some(json_string(<< "a" >>)),
                  None, None, None, None),
      create_args(Some(json_string(<< "q" >>)), None, None, None,
                  Some(json_string(<< "l", "o", "w" >>)),
                  Some(json_array(<< >>))),
      create_args(Some(json_number), None, None, None, None, None) }

\* the stored tasks of the shim's runs: one with notes, one without
ShimItems ==
    << [ listed_item("u1", "task", "active", "medium", << << "w" >> >>, "t0")
           EXCEPT !.body = << "b" >> ],
       listed_item("u2", "task", "next", "high", << >>, "t1") >>
ShimStores ==
    { << >>, << ShimItems[1] >>, << ShimItems[1], ShimItems[2] >>,
      << ShimItems[2], ShimItems[1] >> }

\* the ids of the requests: of the stored tasks, of no task, no uuid
ShimIds == { "u1", "u2", "u3", "task-1" }
\* the field names of the requests: those of the schema and another
SchemaFields ==
    { << "title" >>, << "status" >>, << "priority" >>, << "tags" >>,
      << "due_date" >>, << "notes" >> }
ShimFields == SchemaFields \cup { << "color" >> }
\* the values of the requests
ShimValues ==
    { json_string(<< "c" >>), json_string(<< "done" >>),
      json_string(<< "later" >>), json_string(<< "high" >>),
      json_string(<< "2025-03-10" >>), json_array(<< << "u" >> >>),
      json_number }

\* the tool returned after its write, or without one
shim_call(tool, args, returned) ==
    \E write_ok \in BOOLEAN :
       IF returned.ok /\ write_ok
       THEN /\ dir' \in Storage_write_task(dir, returned.task[1])
            /\ outcome' = [ op |-> tool, arg |-> << args >>,
                            path |-> md_path(returned.task[1].frontmatter.id),
                            result |-> Ok(returned.task, << >>) ]
       ELSE /\ dir' = dir
            /\ outcome' = [ op |-> tool, arg |-> << args >>,
                            path |-> EmptyPath,
                            result |-> IF returned.ok
                                       THEN Err("Failed to write task")
                                       ELSE Err(returned.err) ]

\* the create_task tool, the one call of a run; Uuid::new_v4 draws an id
\* that names no file, Utc::now reads an instant
create_task ==
    /\ outcome.op = "none"
    /\ \E args \in CreateArgs, now \in Timestamps,
          id \in { u \in Uuids : entry_index(dir, md_path(u)) = 0 } :
          \E call \in IF str_arg(args.raw_input) # None
                      THEN enrich_sync(client, str_arg(args.raw_input)[1])
                      ELSE { enriched_as(simple(<< >>), 0, "none") } :
             shim_call("create_task", args,
                       tools_create_task(args, call.result, id, now))
    /\ UNCHANGED << appVars, dir_exists, items, nops, timelineVars >>

\* the update_task tool, the one call of a run
update_task ==
    /\ outcome.op = "none"
    /\ \E args \in [ id : ShimIds, field : ShimFields, value : ShimValues ] :
          shim_call("update_task", args,
                    tools_update_task(dir_exists, dir, args))
    /\ UNCHANGED << appVars, dir_exists, items, nops, timelineVars >>

\* the complete_task tool, the one call of a run
complete_task ==
    /\ outcome.op = "none"
    /\ \E args \in [ id : ShimIds ] :
          shim_call("complete_task", args,
                    tools_complete_task(dir_exists, dir, args))
    /\ UNCHANGED << appVars, dir_exists, items, nops, timelineVars >>

\* the shim started on a data directory that holds the files
ShimInit ==
    /\ AppInit /\ files = StoreEmpty /\ config_file = InitialWorkstreams
    /\ dir_exists = TRUE
    /\ \E ts \in ShimStores :
          /\ dir = files_of(ts)
          /\ items = { ts[i] : i \in 1..Len(ts) }
    /\ outcome = NoOutcome
    /\ nops = 0
    /\ TimelineInit

ShimNext == create_task \/ update_task \/ complete_task

SpecShim == ShimInit /\ [][ShimNext]_vars

(***************************************************************************)
(* The timeline on its own: render_gantt over the child tasks of a         *)
(* project, a date, a scroll offset and a terminal width.                  *)
(***************************************************************************)
\* child tasks of the project in one frame
MaxChildren == 2

\* the header fields of a child task that the timeline reads
gantt_task(status, start_date, end_date, due_date, progress) ==
    [ status |-> status, start_date |-> start_date, end_date |-> end_date,
      due_date |-> due_date, progress |-> progress ]

\* the child tasks: undated; due before the window; done, wider than the
\* window; starting after the window; ending before its start; with an
\* unreadable start and a due date; ending five days after the window
GanttTasks ==
    { gantt_task("active", None, None, None, None),
      gantt_task("active", None, None, Some("2025-01-31"), Some(50)),
      gantt_task("done", Some("2025-01-20"), Some("2025-03-20"), None,
                 Some(30)),
      gantt_task("next", Some("2025-03-15"), None, None, None),
      gantt_task("waiting", Some("2025-02-20"), Some("2025-02-12"), None,
                 Some(50)),
      gantt_task("active", Some("2025-02-30"), None, Some("2025-02-24"),
                 Some(50)),
      gantt_task("active", Some("2025-03-10"), Some("2025-03-17"), None,
                 Some(30)) }

RECURSIVE SeqsUpTo(_, _)
SeqsUpTo(S, n) ==
    IF n = 0 THEN { << >> }
    ELSE SeqsUpTo(S, n - 1) \cup
         { Append(q, x) : q \in { r \in SeqsUpTo(S, n - 1) : Len(r) = n - 1 },
                          x \in S }

\* the day of the frame
Todays == { from_ymd(2025, 2, 10) }
\* the widths of the timeline's area: 24 and 25 leave 0 and 1 columns
AreaWidths == { 24, 25, 34, 42, 64 }
\* gantt_scroll_offset after five scrolls left, one left, none, one and two
\* right
ScrollOffsets == { -5 * ScrollStep, -ScrollStep, 0, ScrollStep, 2 * ScrollStep }

\* terminal.draw in the ProjectGantt view
draw_gantt ==
    /\ frame' = render_gantt(project_tasks, today, scroll_offset, area_width)
    /\ UNCHANGED << appVars, storageVars, today, area_width, project_tasks,
                    scroll_offset >>

\* the timeline of a project before its first frame
GanttInit ==
    /\ AppInit /\ files = StoreEmpty /\ config_file = InitialWorkstreams
    /\ client = None
    /\ StorageInit
    /\ today \in Todays
    /\ area_width \in AreaWidths
    /\ project_tasks \in SeqsUpTo(GanttTasks, MaxChildren)
    /\ scroll_offset \in ScrollOffsets
    /\ frame = NoFrame

GanttNext == draw_gantt

SpecGantt == GanttInit /\ [][GanttNext]_vars

TypeOK ==
    /\ view_mode \in ViewModes
    /\ kanban_column \in 0..3
    /\ running \in BOOLEAN
    /\ nkeys \in 0..MaxKeys

(***************************************************************************)
(* Vocabulary of the properties, stated over the variables alone.          *)
(***************************************************************************)
OverlayActive == show_new_task \/ show_new_project \/ settings_editing

\* the tag filter lets the item through
PassesFilter(t) ==
    active_filter = None \/ \E i \in 1..Len(t.tags) : t.tags[i] = active_filter[1]

\* the positions of `tasks` that pass the filter and have the status
ShownWith(status) ==
    { i \in 1..Len(tasks) : PassesFilter(tasks[i]) /\ tasks[i].status = status }

ColumnStatus ==
    << "active", "next", "waiting", "done" >>

\* the number of items the Kanban view draws in a column (0-based index)
ColumnCount(col) == Cardinality(ShownWith(ColumnStatus[col + 1]))

\* the number of rows the Compact view draws
CompactCount ==
    Cardinality(ShownWith("active")) + Cardinality(ShownWith("next"))
        + Min(Cardinality(ShownWith("done")), DoneShown)

ConfirmOps == {"create_new_task", "create_new_project", "settings_confirm_edit"}
CancelOps ==
    {"cancel_new_task_dialog", "cancel_new_project_dialog", "settings_cancel_edit"}

(***************************************************************************)
(* C1.  While the loop runs, the Kanban cursor is in range: kanban_row is  *)
(* smaller than the number of tasks of the current column under the active *)
(* filter when the column is non-empty, and 0 when it is empty.            *)
(***************************************************************************)
C1_KanbanRowInRange ==
    running =>
        IF ColumnCount(kanban_column) > 0
        THEN kanban_row < ColumnCount(kanban_column)
        ELSE kanban_row = 0

(***************************************************************************)
(* C2.  While the loop runs, the Compact cursor is in range: selected_index*)
(* is smaller than the number of rows the Compact view draws (Active, Next *)
(* and at most ten Done tasks under the filter) when there are any, and 0  *)
(* otherwise.                                                              *)
(***************************************************************************)
C2_CompactCursorInRange ==
    running =>
        IF CompactCount > 0
        THEN selected_index < CompactCount
        ELSE selected_index = 0

(***************************************************************************)
(* C3.  While an overlay is active, a key other than confirm and cancel    *)
(* changes nothing but a text buffer: the view, the cursors, the filter,   *)
(* the tasks, the files, the configuration and the overlay flags stay, and *)
(* the loop keeps running.                                                 *)
(***************************************************************************)
C3_OverlayCapturesKeys ==
    [][ (OverlayActive /\ last_op' \notin ConfirmOps \cup CancelOps) =>
            /\ UNCHANGED << view_mode, selected_index, kanban_column,
                            kanban_row, settings_selected, projects_selected,
                            current_project_id, gantt_selected,
                            gantt_scroll_offset, active_filter, tasks, files,
                            workstreams, config_file, show_new_task,
                            show_new_project, settings_editing >>
            /\ show_new_task =>
                  UNCHANGED << new_project_title, settings_edit_text >>
            /\ (~ show_new_task /\ show_new_project) =>
                  UNCHANGED << new_task_title, settings_edit_text >>
            /\ (~ show_new_task /\ ~ show_new_project) =>
                  UNCHANGED << new_task_title, new_project_title >>
            /\ running' ]_vars

\* 'q' was typed into the new-task dialog over the Kanban view
C3_Witness ==
    /\ show_new_task /\ view_mode = "Kanban" /\ running
    /\ last_op = "new_task_title.push"
    /\ new_task_title = << "q" >>

(***************************************************************************)
(* C4.  A failing read or write of the backing store does not end the      *)
(* loop: the loop ends only when the user quits.                           *)
(***************************************************************************)
C4_LoopSurvivesStoreFailure ==
    ~ running => last_op = "quit"

(***************************************************************************)
(* C5.  With no overlay open a key changes view_mode only along the listed *)
(* edges; closing Settings or Projects lands in Compact.                   *)
(***************************************************************************)
ViewEdges ==
    { << "Compact", "Kanban" >>, << "Kanban", "Compact" >>,
      << "Compact", "Settings" >>, << "Kanban", "Settings" >>,
      << "Compact", "Projects" >>, << "Kanban", "Projects" >>,
      << "Settings", "Compact" >>, << "Projects", "Compact" >>,
      << "Projects", "ProjectGantt" >>, << "ProjectGantt", "Projects" >> }

C5_ViewTransitions ==
    [][ ~ OverlayActive =>
            /\ view_mode' # view_mode => << view_mode, view_mode' >> \in ViewEdges
            /\ last_op' \in {"close_settings", "close_projects"} =>
                  view_mode' = "Compact" ]_vars

\* Settings, opened from the Kanban view after a column move, was closed
C5_Witness ==
    /\ last_op = "close_settings" /\ view_mode = "Compact"
    /\ kanban_column # KANBAN_COL_ACTIVE /\ nkeys = 4

(***************************************************************************)
(* C6.  open_project_gantt enters ProjectGantt only with a Project under   *)
(* the Projects cursor, takes that item's id as the context and resets the *)
(* Gantt cursor and scroll offset; with no project under the cursor it     *)
(* changes nothing; close_project_gantt returns to Projects and clears the *)
(* context.                                                                *)
(***************************************************************************)
\* the positions of the Project items, in the order of `tasks`
ProjectPositions == { i \in 1..Len(tasks) : tasks[i].item_type = "project" }

\* the position in `tasks` of the Project under the Projects cursor, or 0
ProjectUnderCursor ==
    IF \E i \in ProjectPositions :
          Cardinality({ j \in ProjectPositions : j < i }) = projects_selected
    THEN CHOOSE i \in ProjectPositions :
          Cardinality({ j \in ProjectPositions : j < i }) = projects_selected
    ELSE 0

C6_GanttOpenClose ==
    [][ /\ last_op' = "open_project_gantt" =>
              IF ProjectUnderCursor # 0
              THEN /\ view_mode' = "ProjectGantt"
                   /\ current_project_id' = Some(tasks[ProjectUnderCursor].id)
                   /\ gantt_selected' = 0
                   /\ gantt_scroll_offset' = 0
              ELSE UNCHANGED << view_mode, current_project_id, gantt_selected,
                                gantt_scroll_offset, projects_selected, tasks >>
        /\ view_mode' = "ProjectGantt" /\ view_mode # "ProjectGantt" =>
              last_op' = "open_project_gantt"
        /\ last_op' = "close_project_gantt" =>
              view_mode' = "Projects" /\ current_project_id' = None ]_vars

\* the Gantt view was opened on the second project
C6_Witness ==
    /\ last_op = "open_project_gantt" /\ view_mode = "ProjectGantt"
    /\ projects_selected = 1
    /\ current_project_id = Some(4)

(***************************************************************************)
(* C7.  Opening, editing and closing an overlay leaves view_mode as it is, *)
(* so an overlay closes back to the view that opened it; cancel empties    *)
(* the buffer and changes neither the tasks, the configuration nor the     *)
(* files.                                                                  *)
(***************************************************************************)
C7_OverlayClosesBack ==
    [][ /\ (OverlayActive \/ OverlayActive') => view_mode' = view_mode
        /\ last_op' \in CancelOps =>
              /\ OverlayActive /\ ~ OverlayActive'
              /\ new_task_title' = << >> \/ last_op' # "cancel_new_task_dialog"
              /\ new_project_title' = << >> \/ last_op' # "cancel_new_project_dialog"
              /\ settings_edit_text' = << >> \/ last_op' # "settings_cancel_edit"
              /\ UNCHANGED << tasks, files, workstreams, config_file >> ]_vars

\* the new-task dialog was cancelled over the Kanban view
C7_Witness ==
    /\ last_op = "cancel_new_task_dialog" /\ view_mode = "Kanban"
    /\ ~ show_new_task /\ new_task_title = << >>

(***************************************************************************)
(* C8.  In the Compact view next_task on the last drawn row moves the      *)
(* cursor to row 0, and previous_task on row 0 moves it to the last drawn  *)
(* row; Waiting and Archived tasks do not count.                           *)
(***************************************************************************)
C8_CompactWrap ==
    [][ /\ (last_op' = "next_task" /\ CompactCount > 0
              /\ selected_index = CompactCount - 1) => selected_index' = 0
        /\ (last_op' = "previous_task" /\ CompactCount > 0
              /\ selected_index = 0) => selected_index' = CompactCount - 1 ]_vars

(***************************************************************************)
(* C9.  After kanban_move_left or kanban_move_right the row is the minimum *)
(* of the previous row and count - 1, count being the number of tasks the  *)
(* newly selected column shows, or 0 when that column is empty.            *)
(***************************************************************************)
C9_KanbanReclamp ==
    [][ last_op' \in {"kanban_move_left", "kanban_move_right"} =>
            kanban_row' = IF ColumnCount(kanban_column)' = 0 THEN 0
                          ELSE Min(kanban_row, ColumnCount(kanban_column)' - 1) ]_vars

\* the cursor came from the three-task Active column into the Done column,
\* which shows one task
C9_Witness ==
    /\ last_op = "kanban_move_left" /\ kanban_column = KANBAN_COL_DONE
    /\ ColumnCount(KANBAN_COL_ACTIVE) = 3 /\ ColumnCount(KANBAN_COL_DONE) = 1
    /\ kanban_row = 0 /\ nkeys = 4 /\ active_filter = None

(***************************************************************************)
(* C10.  kanban_column is one of the four columns; move_right steps to the *)
(* next column and from Done to Active, move_left steps to the previous    *)
(* column and from Active to Done, so right then left, and four rights,    *)
(* restore the column.                                                     *)
(***************************************************************************)
C10_ColumnWrap ==
    [][ /\ kanban_column \in 0..3 /\ kanban_column' \in 0..3
        /\ last_op' = "kanban_move_right" =>
              kanban_column' = IF kanban_column = KANBAN_COL_DONE
                               THEN KANBAN_COL_ACTIVE ELSE kanban_column + 1
        /\ last_op' = "kanban_move_left" =>
              kanban_column' = IF kanban_column = KANBAN_COL_ACTIVE
                               THEN KANBAN_COL_DONE ELSE kanban_column - 1
        /\ column_left(column_right(kanban_column)) = kanban_column
        /\ column_right(column_right(column_right(column_right(kanban_column))))
              = kanban_column ]_vars

\* a move to the right has wrapped the cursor from Done back to Active
C10_Witness ==
    /\ last_op = "kanban_move_right" /\ kanban_column = KANBAN_COL_ACTIVE
    /\ view_mode = "Kanban" /\ nkeys = 5

\* the tasks under the project that the Gantt view is showing
ChildCount ==
    Cardinality({ i \in 1..Len(tasks) :
                    /\ current_project_id # None
                    /\ tasks[i].parent_goal_id = current_project_id })

\* the number of tasks that are projects
ProjectCount == Cardinality(ProjectPositions)

(***************************************************************************)
(* C11: in a Kanban column holding count > 0 tasks with the row on one of  *)
(* them, kanban_move_down sets the row to (row + 1) mod count and          *)
(* kanban_move_up to (row - 1) mod count, 0 wrapping to count - 1; in an   *)
(* empty column both leave the row unchanged; neither changes the column.  *)
(***************************************************************************)
C11_KanbanRowWrap ==
    [][ LET count == ColumnCount(kanban_column)
        IN  /\ last_op' = "kanban_move_down" =>
                  /\ kanban_column' = kanban_column
                  /\ count = 0 => kanban_row' = kanban_row
                  /\ (count > 0 /\ kanban_row < count) =>
                         kanban_row' = (kanban_row + 1) % count
            /\ last_op' = "kanban_move_up" =>
                  /\ kanban_column' = kanban_column
                  /\ count = 0 => kanban_row' = kanban_row
                  /\ (count > 0 /\ kanban_row < count) =>
                         kanban_row' = (kanban_row + count - 1) % count ]_vars

\* Tab, then Up on the first of the three Active cards: the row wrapped to
\* the last card
C11_Witness ==
    /\ last_op = "kanban_move_up" /\ nkeys = 2
    /\ kanban_column = KANBAN_COL_ACTIVE
    /\ ColumnCount(KANBAN_COL_ACTIVE) = 3 /\ kanban_row = 2

(***************************************************************************)
(* C13: settings_selected is at most the number of configured categories   *)
(* in every reachable state: it is on a category or on the add-new slot,   *)
(* also after settings_delete, an add and a rename.                        *)
(***************************************************************************)
C13_SettingsCursorInRange == settings_selected <= Len(workstreams)

\* the last category was deleted under the cursor, which moved back onto
\* the category before it
C13_Witness ==
    /\ last_op = "settings_delete" /\ running
    /\ Len(workstreams) = 1 /\ settings_selected = 0 /\ nkeys = 3

(***************************************************************************)
(* C14: while view_mode is Projects, projects_selected is below the number *)
(* of projects when there is one and 0 otherwise; a new-project confirm    *)
(* that succeeds leaves the cursor on the project it created.              *)
(***************************************************************************)
C14_ProjectsCursor ==
    [][ /\ view_mode' = "Projects" =>
              IF ProjectCount' > 0 THEN projects_selected' < ProjectCount'
              ELSE projects_selected' = 0
        /\ (last_op' = "create_new_project" /\ running'
               /\ Len(tasks') > Len(tasks)) =>
              /\ tasks'[Len(tasks')].item_type = "project"
              /\ ProjectUnderCursor' = Len(tasks') ]_vars

\* a third project was created from the Projects view and the cursor is on it
C14_Witness ==
    /\ last_op = "create_new_project" /\ running /\ view_mode = "Projects"
    /\ ProjectCount = 3 /\ projects_selected = 2
    /\ ProjectUnderCursor = Len(tasks)

(***************************************************************************)
(* C15: while view_mode is ProjectGantt, gantt_selected is below the       *)
(* number of tasks whose parent_goal_id is current_project_id when there   *)
(* is one and 0 otherwise; gantt_next and gantt_prev wrap circularly       *)
(* within exactly that number.                                             *)
(***************************************************************************)
C15_GanttCursor ==
    [][ /\ view_mode' = "ProjectGantt" =>
              IF ChildCount' > 0 THEN gantt_selected' < ChildCount'
              ELSE gantt_selected' = 0
        /\ last_op' = "gantt_next" =>
              gantt_selected' = IF ChildCount > 0
                                THEN (gantt_selected + 1) % ChildCount
                                ELSE gantt_selected
        /\ last_op' = "gantt_prev" =>
              gantt_selected' = IF ChildCount > 0
                                THEN (gantt_selected + ChildCount - 1) % ChildCount
                                ELSE gantt_selected ]_vars

\* the Gantt view of the project with two tasks, gantt_prev on the first
\* task: the cursor wrapped to the second
C15_Witness ==
    /\ last_op = "gantt_prev" /\ view_mode = "ProjectGantt" /\ nkeys = 3
    /\ ChildCount = 2 /\ gantt_selected = 1

(***************************************************************************)
(* C16: gantt_scroll_left and gantt_scroll_right change                    *)
(* gantt_scroll_offset by exactly -7 and +7 and leave gantt_selected,      *)
(* view_mode, current_project_id and the tasks unchanged; gantt_next and   *)
(* gantt_prev leave the scroll offset unchanged.                           *)
(***************************************************************************)
C16_GanttScroll ==
    [][ /\ last_op' = "gantt_scroll_left" =>
              /\ gantt_scroll_offset' = gantt_scroll_offset - 7
              /\ UNCHANGED << gantt_selected, view_mode, current_project_id,
                              tasks, files >>
        /\ last_op' = "gantt_scroll_right" =>
              /\ gantt_scroll_offset' = gantt_scroll_offset + 7
              /\ UNCHANGED << gantt_selected, view_mode, current_project_id,
                              tasks, files >>
        /\ last_op' \in {"gantt_next", "gantt_prev"} =>
              gantt_scroll_offset' = gantt_scroll_offset ]_vars

\* with the cursor on the second task, a right scroll and then a left
\* scroll: the offset is back at 0 and the cursor has not moved
C16_Witness ==
    /\ last_op = "gantt_scroll_left" /\ view_mode = "ProjectGantt"
    /\ nkeys = 5 /\ gantt_scroll_offset = 0 /\ gantt_selected = 1

(***************************************************************************)
(* C12: confirming the edit overlay with non-blank text while the Settings *)
(* cursor is on the add-new slot appends a category with the trimmed text  *)
(* as its name: the list grows by exactly one and every existing category  *)
(* is unchanged; with the cursor on an existing category the confirm       *)
(* changes only the name of that category and not the length of the list.  *)
(***************************************************************************)
C12_SettingsConfirm ==
    [][ (last_op' = "settings_confirm_edit" /\ trim(settings_edit_text) # << >>) =>
          LET n == Len(workstreams)
          IN  IF settings_selected >= n
              THEN /\ Len(workstreams') = n + 1
                   /\ workstreams'[n + 1].name = trim(settings_edit_text)
                   /\ \A i \in 1..n : workstreams'[i] = workstreams[i]
              ELSE /\ Len(workstreams') = n
                   /\ workstreams'[settings_selected + 1].name =
                         trim(settings_edit_text)
                   /\ workstreams'[settings_selected + 1].key =
                         workstreams[settings_selected + 1].key
                   /\ \A i \in 1..n :
                         i # settings_selected + 1 =>
                            workstreams'[i] = workstreams[i] ]_vars

(***************************************************************************)
(* Vocabulary of the store properties, stated over the tokens of a file.   *)
(***************************************************************************)
\* the header delimiter stands at position i of the text
DelimAt(text, i) ==
    /\ i >= 1 /\ i + 2 <= Len(text)
    /\ text[i] = "-" /\ text[i + 1] = "-" /\ text[i + 2] = "-"

\* the positions of the opening and the closing delimiter of the text
HeaderSpans(text) ==
    { span \in (1..Len(text)) \X (1..Len(text)) :
        /\ DelimAt(text, span[1])
        /\ \A k \in 1..(span[1] - 1) : ~ DelimAt(text, k)
        /\ span[2] >= span[1] + 3
        /\ DelimAt(text, span[2])
        /\ \A k \in (span[1] + 3)..(span[2] - 1) : ~ DelimAt(text, k) }

\* the key occurs once in the header and is followed by one of the values
KeyWith(h, key, allowed) ==
    /\ Cardinality({ i \in 1..Len(h) : h[i] = key }) = 1
    /\ \A i \in 1..Len(h) :
          h[i] = key => (i < Len(h) /\ h[i + 1] \in allowed)

\* the header names every required field once, with a value of its type
ValidHeader(h) ==
    /\ KeyWith(h, "id:", Uuids)
    /\ KeyWith(h, "type:", {"task", "goal", "note"})
    /\ KeyWith(h, "status:", {"active", "next", "waiting", "done", "archived"})
    /\ KeyWith(h, "created_at:", Timestamps)
    /\ Cardinality({ i \in 1..Len(h) : h[i] = "title:" }) = 1

\* the text has both delimiters and a valid header between them
WellFormedText(text) ==
    \E span \in HeaderSpans(text) :
       ValidHeader(SubSeq(text, span[1] + 3, span[2] - 1))

\* the positions of the listing that hold a well-formed .md file
WellFormedFiles ==
    { i \in 1..Len(dir) :
        dir[i].path.ext = "md" /\ WellFormedText(dir[i].content) }

\* the k-th of them in listing order
NthWellFormed(k) ==
    CHOOSE i \in WellFormedFiles :
       Cardinality({ j \in WellFormedFiles : j < i }) = k - 1

\* the positions of the listing with the path
FilesAt(d, path) == { i \in 1..Len(d) : d[i].path = path }

(***************************************************************************)
(* C17: load_all returns exactly the tasks parsed from the well-formed     *)
(* .md files of the directory, in listing order: a file that does not      *)
(* parse (no closing delimiter, an invalid header) is skipped without      *)
(* failing the load or dropping a well-formed task, and an absent or empty *)
(* directory gives the empty list, not an error.                           *)
(***************************************************************************)
C17_LoadSkipsMalformed ==
    outcome.op = "load_all_tasks" =>
       /\ outcome.result.ok
       /\ Len(outcome.result.loaded) = Cardinality(WellFormedFiles)
       /\ \A k \in 1..Cardinality(WellFormedFiles) :
             outcome.result.loaded[k] =
                parse_content(dir[NthWellFormed(k)].content,
                              dir[NthWellFormed(k)].path).item[1]
       /\ (~ dir_exists \/ dir = << >>) => outcome.result.loaded = << >>

\* a load over a file without closing delimiter, listed first, and a
\* well-formed file: the one task is returned
C17_Witness ==
    /\ outcome.op = "load_all_tasks" /\ Len(dir) = 2
    /\ dir[1].content = TextUnclosed /\ dir[1].path.ext = "md"
    /\ dir[2].content = TextMinimal /\ dir[2].path.ext = "md"
    /\ Len(outcome.result.loaded) = 1
    /\ outcome.result.loaded[1].frontmatter.id = "u3"
    /\ outcome.result.loaded[1].frontmatter.priority = "medium"

(***************************************************************************)
(* C18: a write of task t leaves exactly one file <id>.md for t's id, its  *)
(* content the serialization of t (the last write wins), and creates or    *)
(* overwrites only that file: every other file stays as it was; so after   *)
(* any sequence of writes there is one file per id written.                *)
(***************************************************************************)
C18_WriteOneFilePerId ==
    [][ (outcome'.op = "write_task" /\ outcome'.result.ok) =>
          LET t == outcome'.arg[1]
              path == [ stem |-> t.frontmatter.id, ext |-> "md" ]
          IN  /\ Cardinality(FilesAt(dir', path)) = 1
              /\ \A i \in FilesAt(dir', path) :
                    dir'[i].content = Storage_serialize_task(t)
              /\ SelectSeq(dir', LAMBDA f : f.path # path)
                    = SelectSeq(dir, LAMBDA f : f.path # path)
              /\ \A i, j \in 1..Len(dir') :
                    dir'[i].path = dir'[j].path => i = j ]_vars

\* the second call writes the item of the first one again, with its
\* status set to done: its file is still the only one and holds the new
\* text
C18_Witness ==
    /\ outcome.op = "write_task" /\ outcome.result.ok /\ nops = 2
    /\ outcome.arg[1].frontmatter.status = "done"
    /\ Len(dir) = 1
    /\ dir[1].path = [ stem |-> outcome.arg[1].frontmatter.id, ext |-> "md" ]
    /\ outcome.arg[1].frontmatter.title = << "a" >>
    /\ outcome.arg[1].body = << " ", "b", "\n" >>

(***************************************************************************)
(* C19: for a task stored with write(task), delete(task) removes the file  *)
(* <id>.md, so that a following load_all no longer returns the task;       *)
(* delete(task) returns an error when the backing file is absent.          *)
(***************************************************************************)
C19_DeleteRemovesWritten ==
    [][ outcome'.op = "delete_task" =>
          LET t == outcome'.arg[1]
              path == [ stem |-> t.frontmatter.id, ext |-> "md" ]
          IN  /\ (\E i \in FilesAt(dir, path) :
                      dir[i].content = Storage_serialize_task(t)) =>
                    /\ outcome'.result.ok
                    /\ FilesAt(dir', path) = { }
                    /\ \A k \in 1..Len(load_entries(dir')) :
                          load_entries(dir')[k].frontmatter.id # t.frontmatter.id
              /\ (FilesAt(dir, path) = { } /\ FilesAt(dir, t.file_path) = { }) =>
                    ~ outcome'.result.ok ]_vars

(***************************************************************************)
(* C20: for every valid task t, whatever its title, tags and body (text    *)
(* holding the header delimiter included), parsing the serialization of t  *)
(* succeeds and gives back every field of the header exactly and the body  *)
(* up to leading and trailing whitespace.                                  *)
(***************************************************************************)
C20_RoundTrip ==
    [][ outcome'.op = "parse_file" =>
          \A t \in items :
             (\E i \in FilesAt(dir, outcome'.path) :
                 dir[i].content = Storage_serialize_task(t)) =>
                /\ outcome'.result.ok
                /\ outcome'.result.item[1].frontmatter = t.frontmatter
                /\ outcome'.result.item[1].body = trim(t.body) ]_vars

(***************************************************************************)
(* Vocabulary of the list_tasks properties.                                *)
(***************************************************************************)
\* the call that has returned, its filter and the sequence it returned
Listing == outcome.op = "list_tasks"
ListFilter == outcome.arg[1]
Listed == outcome.result.loaded
ListedHeaders == { Listed[i].frontmatter : i \in 1..Len(Listed) }

\* the stored items the filter asks for
Wanted(filter) ==
    { t \in items :
        /\ filter.status # None => t.frontmatter.status = filter.status[1]
        /\ filter.item_type # None =>
              t.frontmatter.item_type = filter.item_type[1]
        /\ \A k \in 1..Len(filter.tags) :
              \E j \in 1..Len(t.frontmatter.tags) :
                 t.frontmatter.tags[j] = filter.tags[k] }

PriorityRank(p) ==
    CASE p = "high" -> 3 [] p = "medium" -> 2 [] p = "low" -> 1
CreatedRank(c) ==
    CASE c = "t0" -> 0 [] c = "t1" -> 1 [] c = "t2" -> 2

\* the position of an item's file in the listing of the data directory
InputPosition(fm) ==
    CHOOSE k \in 1..Len(dir) : dir[k].path = [ stem |-> fm.id, ext |-> "md" ]

\* a comes before b in the order of the listing
ListedBefore(a, b) ==
    \/ PriorityRank(a.priority) > PriorityRank(b.priority)
    \/ /\ a.priority = b.priority
       /\ CreatedRank(a.created_at) > CreatedRank(b.created_at)
    \/ /\ a.priority = b.priority
       /\ a.created_at = b.created_at
       /\ InputPosition(a) < InputPosition(b)

ListedIds == [ i \in 1..Len(Listed) |-> Listed[i].frontmatter.id ]

(***************************************************************************)
(* C21: without a limit, list_tasks returns exactly the stored items whose *)
(* status equals the filter's status (when given), whose type equals the   *)
(* filter's type (when given) and that carry every tag of the filter,      *)
(* compared case-sensitively; the empty filter returns every item.         *)
(***************************************************************************)
C21_FilterMatches ==
    (Listing /\ ListFilter.limit = None) =>
        /\ outcome.result.ok
        /\ ListedHeaders = { t.frontmatter : t \in Wanted(ListFilter) }
        /\ Len(Listed) = Cardinality(Wanted(ListFilter))
        /\ (ListFilter.status = None /\ ListFilter.item_type = None
              /\ ListFilter.tags = << >>) =>
                 Len(Listed) = Cardinality(items)

\* tags = [w, u] over A{w}, B{w,u}, C{p,u}, an item tagged W and another
\* tagged {u,w}: B and the last one are returned, A, C and the W item not
C21_Witness ==
    /\ Listing
    /\ ListFilter = [ status |-> None, item_type |-> None,
                      tags |-> << << "w" >>, << "u" >> >>, limit |-> None ]
    /\ Cardinality(items) = 5
    /\ { ListedIds[i] : i \in 1..Len(Listed) } = { "u2", "u5" }

(***************************************************************************)
(* C22: the items list_tasks returns are ordered by descending priority,   *)
(* among equal priorities by descending created_at, and items equal in     *)
(* both keep the order in which they were loaded.                          *)
(***************************************************************************)
C22_ListOrder ==
    Listing =>
        \A i, j \in 1..Len(Listed) :
           i < j => ListedBefore(Listed[i].frontmatter, Listed[j].frontmatter)

\* everything listed: the old high item precedes the new low one, and of
\* the two items equal in both keys the one loaded first comes first
C22_Witness ==
    /\ Listing
    /\ ListFilter.limit = None
    /\ ListedIds = << "u5", "u1", "u3", "u2", "u4" >>

(***************************************************************************)
(* C23: with limit n, list_tasks returns the first min(n, m) of the m      *)
(* matching items in listing order: it returns min(n, m) matching items,   *)
(* and every matching item it leaves out comes after every item it         *)
(* returns; limit 0 returns nothing and no limit returns all m.            *)
(***************************************************************************)
C23_LimitAfterSort ==
    Listing =>
        LET m == Cardinality(Wanted(ListFilter))
            n == IF ListFilter.limit = None THEN m ELSE ListFilter.limit[1]
            left_out == { t.frontmatter : t \in Wanted(ListFilter) }
                            \ ListedHeaders
        IN  /\ Len(Listed) = Min(n, m)
            /\ Cardinality(ListedHeaders) = Len(Listed)
            /\ ListedHeaders \subseteq { t.frontmatter : t \in Wanted(ListFilter) }
            /\ \A a \in ListedHeaders : \A b \in left_out : ListedBefore(a, b)

\* limit 2 over the three active items: the two that sort first
C23_Witness ==
    /\ Listing
    /\ ListFilter = [ status |-> Some("active"), item_type |-> None,
                      tags |-> << >>, limit |-> Some(2) ]
    /\ Cardinality(Wanted(ListFilter)) = 3
    /\ ListedIds = << "u1", "u2" >>

(***************************************************************************)
(* C24: the views have at most one tag filter; the filtered slice is the   *)
(* loaded items, in order, that carry a tag equal to it character by       *)
(* character, or all loaded items without a filter; for the one tag it is  *)
(* the selection of the TaskFilter whose tag list holds only that tag.     *)
(***************************************************************************)
C24_ViewFilterIsSingleTagFilter ==
    /\ Len(active_filter) <= 1
    /\ filtered_tasks(tasks, active_filter) = SelectSeq(tasks, PassesFilter)
    /\ active_filter = None => filtered_tasks(tasks, active_filter) = tasks
    /\ active_filter # None =>
          filtered_tasks(tasks, active_filter) =
              SelectSeq(tasks, LAMBDA t :
                  matches([ status |-> None, item_type |-> None,
                            tags |-> << active_filter[1] >>,
                            limit |-> None ], t))

\* the filter w over items tagged w, W and untagged: the two tagged w
C24_Witness ==
    /\ active_filter = Some(<< "w" >>)
    /\ Len(tasks) = 5
    /\ \E i \in 1..Len(tasks) : tasks[i].tags = << << "W" >> >>
    /\ Len(filtered_tasks(tasks, active_filter)) = 2

(***************************************************************************)
(* Vocabulary of the timeline properties.                                  *)
(***************************************************************************)
\* start = start_date, else due_date, else today
ResolvedStart(fm) ==
    IF parse_date(fm.start_date) # None THEN parse_date(fm.start_date)[1]
    ELSE IF parse_date(fm.due_date) # None THEN parse_date(fm.due_date)[1]
    ELSE today
\* end = end_date, else due_date, else start + 7 days
ResolvedEnd(fm) ==
    IF parse_date(fm.end_date) # None THEN parse_date(fm.end_date)[1]
    ELSE IF parse_date(fm.due_date) # None THEN parse_date(fm.due_date)[1]
    ELSE ResolvedStart(fm) + 7

RowIndexes == 1..Len(frame.rows)

\* the columns (0-based) of a row drawn as part of the bar, and as today
BarColumns(bar) ==
    { c - 1 : c \in { k \in 1..Len(bar) : bar[k] \in {BAR_FULL, BAR_EMPTY} } }
TodayColumns(bar) ==
    { c - 1 : c \in { k \in 1..Len(bar) : bar[k] = TODAY_MARK } }

\* floor((date - window_start) / days_per_column) clamped to [0, width - 1],
\* with days_per_column = max(1, total_window_days / width), for width >= 1
ExactColumn(date) ==
    LET days == date - frame.min_date
        width == frame.timeline_width
        floor == IF days < 0 THEN -1
                 ELSE IF frame.total_days > width
                      THEN (days * width) \div frame.total_days
                      ELSE days
    IN  IF floor < 0 THEN 0
        ELSE IF floor > width - 1 THEN width - 1 ELSE floor

\* the dates the frame has mapped to columns, each with its column
MappedDates ==
    { << today, frame.today_col >> }
        \cup { << frame.rows[i].start, frame.rows[i].start_col >> :
                  i \in RowIndexes }
        \cup { << frame.rows[i].end, frame.rows[i].end_col >> :
                  i \in RowIndexes }

(***************************************************************************)
(* C25: with scroll offset 0 the window of the frame contains today - 7    *)
(* to today + 30 and the resolved start and end of every child task; with  *)
(* offset k both bounds are those of offset 0 plus k.                      *)
(***************************************************************************)
C25_WindowContainsTasks ==
    frame.drawn =>
        /\ scroll_offset = 0 =>
              /\ frame.min_date <= today - 7
              /\ frame.max_date >= today + 30
              /\ \A i \in RowIndexes :
                    /\ frame.min_date <= ResolvedStart(project_tasks[i])
                    /\ ResolvedStart(project_tasks[i]) <= frame.max_date
                    /\ frame.min_date <= ResolvedEnd(project_tasks[i])
                    /\ ResolvedEnd(project_tasks[i]) <= frame.max_date
        /\ LET unscrolled == calculate_date_range(project_tasks, today, 0)
           IN  /\ frame.min_date = unscrolled[1] + scroll_offset
               /\ frame.max_date = unscrolled[2] + scroll_offset

(***************************************************************************)
(* C26: each row's start is start_date, else due_date, else today, and its *)
(* end is end_date, else due_date, else start + 7; when the end is not     *)
(* after the start, or both fall in the same column, the bar of the row    *)
(* occupies exactly one column.                                            *)
(***************************************************************************)
C26_MinimumBar ==
    frame.drawn =>
        \A i \in RowIndexes :
           LET row == frame.rows[i]
           IN  /\ row.start = ResolvedStart(project_tasks[i])
               /\ row.end = ResolvedEnd(project_tasks[i])
               /\ (row.end <= row.start \/ row.end_col = row.start_col) =>
                     Cardinality(BarColumns(row.bar)) = 1

(***************************************************************************)
(* C26, amended: the same resolution of start and end; when the end is not *)
(* after the start, or both fall in the same column, the bar occupies      *)
(* exactly one column of a timeline that has at least one column, and      *)
(* nothing is drawn in a timeline of no columns.                           *)
(***************************************************************************)
C26_MinimumBarInGrid ==
    frame.drawn =>
        \A i \in RowIndexes :
           LET row == frame.rows[i]
           IN  /\ row.start = ResolvedStart(project_tasks[i])
               /\ row.end = ResolvedEnd(project_tasks[i])
               /\ (row.end <= row.start \/ row.end_col = row.start_col) =>
                     /\ frame.timeline_width >= 1 =>
                           BarColumns(row.bar) = { row.start_col }
                     /\ frame.timeline_width = 0 => row.bar = << >>

\* a task that ends eight days before it starts, the two dates in
\* different columns, drawn as one cell
C26_Witness ==
    /\ frame.drawn
    /\ frame.timeline_width >= 1
    /\ \E i \in RowIndexes :
          /\ frame.rows[i].end < frame.rows[i].start
          /\ frame.rows[i].end_col < frame.rows[i].start_col
          /\ Cardinality(BarColumns(frame.rows[i].bar)) = 1

(***************************************************************************)
(* C27: for a timeline of at least one column, every date the frame maps   *)
(* gets the column floor((date - window_start) / days_per_column) clamped  *)
(* to [0, width - 1]; a later date never gets an earlier column, and every *)
(* column is one of the grid.                                              *)
(***************************************************************************)
C27_DateToColumn ==
    (frame.drawn /\ frame.timeline_width >= 1) =>
        /\ \A p \in MappedDates : p[2] = ExactColumn(p[1])
        /\ \A p, q \in MappedDates : p[1] < q[1] => p[2] <= q[2]
        /\ \A p \in MappedDates : p[2] \in 0..(frame.timeline_width - 1)

(***************************************************************************)
(* C28: the bar of a row has max(1, end_col - start_col) columns from      *)
(* start_col on, the leading round(length * progress / 100) of them filled *)
(* and the others empty, with progress the stored percentage, 0 when       *)
(* absent, and 100 for a task that is done or archived; the cells of the   *)
(* row are the columns of the grid and no other.                           *)
(***************************************************************************)
C28_BarFill ==
    frame.drawn =>
        \A i \in RowIndexes :
           LET row == frame.rows[i]
               fm == project_tasks[i]
               length == IF row.end_col - row.start_col >= 1
                         THEN row.end_col - row.start_col ELSE 1
               progress == IF fm.status \in {"done", "archived"} THEN 100
                           ELSE IF fm.progress = None THEN 0
                           ELSE fm.progress[1]
               filled == CHOOSE f \in 0..length :
                            /\ 200 * f <= 2 * length * progress + 100
                            /\ 2 * length * progress + 100 < 200 * (f + 1)
           IN  /\ Len(row.bar) = frame.timeline_width
               /\ \A c \in 0..(frame.timeline_width - 1) :
                     /\ row.bar[c + 1] = BAR_FULL <=>
                           (row.start_col <= c /\ c < row.start_col + filled)
                     /\ row.bar[c + 1] = BAR_EMPTY <=>
                           (row.start_col + filled <= c
                               /\ c < row.start_col + length)
               /\ frame.timeline_width >= 1 =>
                     Cardinality(BarColumns(row.bar)) = length

\* a done task stored with 30 percent, its bar of several columns all
\* filled, next to an open task stored with 30 percent, partly filled
C28_Witness ==
    /\ frame.drawn
    /\ \E i \in RowIndexes :
          /\ project_tasks[i].status = "done"
          /\ project_tasks[i].progress = Some(30)
          /\ Cardinality(BarColumns(frame.rows[i].bar)) > 2
          /\ \A c \in BarColumns(frame.rows[i].bar) :
                frame.rows[i].bar[c + 1] = BAR_FULL
    /\ \E i \in RowIndexes :
          /\ project_tasks[i].status = "active"
          /\ project_tasks[i].progress = Some(30)
          /\ \E c, d \in BarColumns(frame.rows[i].bar) :
                /\ frame.rows[i].bar[c + 1] = BAR_FULL
                /\ frame.rows[i].bar[d + 1] = BAR_EMPTY

(***************************************************************************)
(* C29: a row shows the today marker only when today lies within the       *)
(* scrolled window, and then only in today's column and only when the bar  *)
(* does not occupy that cell; when today lies outside the window no cell   *)
(* of the row is marked.                                                   *)
(***************************************************************************)
C29_TodayMarker ==
    frame.drawn =>
        \A i \in RowIndexes :
           LET row == frame.rows[i]
               in_window == frame.min_date <= today /\ today <= frame.max_date
           IN  /\ TodayColumns(row.bar) # { } =>
                     /\ in_window
                     /\ TodayColumns(row.bar) = { frame.today_col }
                     /\ frame.today_col \notin BarColumns(row.bar)
               /\ ~ in_window => TodayColumns(row.bar) = { }

(***************************************************************************)
(* C30: confirming the new-task dialog with a non-blank title gets a       *)
(* result from the enricher after at most one request to the service; when *)
(* the service is unavailable (no API key, no runtime), answers with an    *)
(* error or with text that is no task record, the task is created with the *)
(* trimmed input as title and without due date, priority override, tags or *)
(* notes; the loop ends in this step only when the write of the file       *)
(* failed.                                                                 *)
(***************************************************************************)
C30_EnrichmentFallback ==
    [][ (last_op' = "create_new_task" /\ trim(new_task_title) # << >>) =>
          /\ enrichment'.reply \in
                {"unavailable", "no_runtime", "error", "unparsable", "parsed"}
          /\ enrichment'.requests <= 1
          /\ client = None =>
                (enrichment'.reply = "unavailable" /\ enrichment'.requests = 0)
          /\ (enrichment'.reply # "parsed" /\ ~ enrichment'.write_failed) =>
                /\ running'
                /\ ~ show_new_task'
                /\ Len(tasks') = Len(tasks) + 1
                /\ LET t == tasks'[Len(tasks')]
                   IN  /\ t.title = trim(new_task_title)
                       /\ t.due_date = None
                       /\ t.priority = "medium"
                       /\ t.tags = << >>
                       /\ t.body = << >>
          /\ ~ running' => enrichment'.write_failed ]_vars

\* the service answered the one request with text that is no task record,
\* and the task was created from the input alone
C30_Witness ==
    /\ last_op = "create_new_task"
    /\ enrichment = [ requests |-> 1, reply |-> "unparsable",
                      write_failed |-> FALSE ]
    /\ running
    /\ tasks # << >>
    /\ tasks[Len(tasks)].tags = << >>
    /\ tasks[Len(tasks)].body = << >>

(***************************************************************************)
(* The request shim: vocabulary of the properties of update_task and       *)
(* complete_task.                                                          *)
(***************************************************************************)
\* the request of the call, the ids of the stored tasks, the tasks read
\* back from the files
Request == outcome.arg[1]
StoredIds == { t.frontmatter.id : t \in items }
ReadBack(d) == Storage_load_all_tasks(TRUE, d).loaded
ReadBackOf(d, id) ==
    { ReadBack(d)[i] : i \in { j \in 1..Len(ReadBack(d)) :
                                  ReadBack(d)[j].frontmatter.id = id } }

\* the request names a status or a priority that does not exist, a field
\* outside the schema, or an id of no stored task
UnknownWord(req, field, words) ==
    /\ req.field = << field >>
    /\ req.value.json = "string"
    /\ \A w \in words : req.value.text # << w >>
RejectedRequest(op, req) ==
    \/ req.id \notin StoredIds
    \/ /\ op = "update_task"
       /\ \/ UnknownWord(req, "status", Statuses)
          \/ UnknownWord(req, "priority", Priorities)
          \/ req.field \notin SchemaFields

\* C31: a rejected update_task or complete_task request (unknown status or
\* priority word, field outside the schema, id of no stored task) returns
\* an error and leaves every file of the data directory as it was
C31_RejectedLeavesFiles ==
    [][ (outcome'.op \in {"update_task", "complete_task"}
         /\ RejectedRequest(outcome'.op, outcome'.arg[1])) =>
          /\ ~ outcome'.result.ok
          /\ dir' = dir ]_vars

\* update_task with the status "later" for the stored task u1 was rejected,
\* and the file of u1 still reads Active
C31_Witness ==
    /\ outcome.op = "update_task"
    /\ Request.id = "u1" /\ "u1" \in StoredIds
    /\ Request.field = << "status" >>
    /\ Request.value = json_string(<< "later" >>)
    /\ outcome.result.err = "Invalid status value"
    /\ \A t \in ReadBackOf(dir, "u1") : t.frontmatter.status = "active"
    /\ ReadBackOf(dir, "u1") # { }

\* a value of the kind the schema field takes
WellFormed(req) ==
    \/ req.field \in { << "title" >>, << "notes" >> }
       /\ req.value.json = "string"
    \/ req.field = << "status" >>
       /\ \E w \in Statuses : req.value = json_string(<< w >>)
    \/ req.field = << "priority" >>
       /\ \E w \in Priorities : req.value = json_string(<< w >>)
    \/ req.field = << "tags" >> /\ req.value.json = "array"
    \/ req.field = << "due_date" >>
       /\ req.value = json_string(<< "2025-03-10" >>)

\* the stored task shows the value in the field
Applied(req, t) ==
    \/ req.field = << "title" >> /\ t.frontmatter.title = req.value.text
    \/ req.field = << "status" >>
       /\ << t.frontmatter.status >> = req.value.text
    \/ req.field = << "priority" >>
       /\ << t.frontmatter.priority >> = req.value.text
    \/ req.field = << "tags" >> /\ t.frontmatter.tags = req.value.elems
    \/ req.field = << "due_date" >>
       /\ t.frontmatter.due_date = Some(req.value.text[1])
    \/ req.field = << "notes" >>
       /\ Len(t.body) >= Len(req.value.text)
       /\ SubSeq(t.body, Len(t.body) - Len(req.value.text) + 1, Len(t.body))
             = req.value.text

\* C32: update_task with a field of its schema and a well-formed value for
\* a stored task reports success and the stored file shows the value
\* (a failing write of the file aside)
C32_SchemaFieldsAccepted ==
    (/\ outcome.op = "update_task"
     /\ Request.id \in StoredIds
     /\ Request.field \in SchemaFields
     /\ WellFormed(Request)
     /\ outcome.result.err # "Failed to write task") =>
       /\ outcome.result.ok
       /\ ReadBackOf(dir, Request.id) # { }
       /\ \A t \in ReadBackOf(dir, Request.id) : Applied(Request, t)

\* the same for the four fields the match of update_task knows
C32_KnownFieldsAccepted ==
    (outcome.op = "update_task"
     /\ Request.field \notin { << "tags" >>, << "due_date" >> }) =>
       C32_SchemaFieldsAccepted

(***************************************************************************)
(* The new-task dialog: what a confirmation leaves behind.                 *)
(***************************************************************************)
\* the row the Compact cursor highlights, the card the Kanban cursor
\* highlights
CompactHighlighted(ts, flt, index) ==
    IF index < Len(render_task_list(ts, flt))
    THEN Some(render_task_list(ts, flt)[index + 1])
    ELSE None
KanbanHighlighted(ts, flt, col, row) == kanban_selected_task(ts, flt, col, row)

\* one Active task more in memory and one file more, and both cursors on it
NewTaskCreatedAndSelected ==
    /\ Len(tasks') = Len(tasks) + 1
    /\ SubSeq(tasks', 1, Len(tasks)) = tasks
    /\ tasks'[Len(tasks')].status = "active"
    /\ \A i \in 1..Len(tasks) : tasks[i].id # tasks'[Len(tasks')].id
    /\ Len(files') = Len(files) + 1
    /\ CompactHighlighted(tasks', active_filter', selected_index')
          = Some(tasks'[Len(tasks')])
    /\ kanban_column' = KANBAN_COL_ACTIVE
    /\ KanbanHighlighted(tasks', active_filter', kanban_column', kanban_row')
          = Some(tasks'[Len(tasks')])

\* C33: confirming the new-task dialog with a non-blank title persists and
\* appends exactly one Active task and puts the Compact and the Kanban
\* cursor on it, with or without a tag filter (a failing write of the file
\* aside); confirming a blank title creates no task and writes no file
C33_NewTaskSelected ==
    [][ last_op' = "create_new_task" =>
          IF trim(new_task_title) = << >>
          THEN tasks' = tasks /\ files' = files
          ELSE ~ enrichment'.write_failed => NewTaskCreatedAndSelected ]_vars

\* the same without a tag filter
C33_NewTaskSelectedUnfiltered ==
    [][ (last_op' = "create_new_task" /\ active_filter = None) =>
          IF trim(new_task_title) = << >>
          THEN tasks' = tasks /\ files' = files
          ELSE ~ enrichment'.write_failed => NewTaskCreatedAndSelected ]_vars

(***************************************************************************)
(* Status changes from the Compact view and the Kanban board.              *)
(***************************************************************************)
\* the task the Compact view highlights for the cursor: the element of
\* Active ++ Next ++ Done at selected_index
CompactCursorTask ==
    IF selected_index < Len(display_ordered_tasks(tasks, active_filter))
    THEN Some(display_ordered_tasks(tasks, active_filter)[selected_index + 1])
    ELSE None

\* the status an operation gives
StatusGiven(op) ==
    IF op \in {"mark_task_done", "kanban_mark_done"} THEN "done"
    ELSE "archived"

\* only the task with the id changed, and only in its status
OnlyStatusOf(id, status) ==
    /\ Len(tasks') = Len(tasks)
    /\ \A i \in 1..Len(tasks) :
          IF tasks[i].id = id
          THEN tasks'[i] = [ tasks[i] EXCEPT !.status = status ]
          ELSE tasks'[i] = tasks[i]

\* C34: in the Compact view mark_task_done and archive_task change the
\* status of exactly the task highlighted for the cursor, the element of
\* Active ++ Next ++ Done at selected_index, and change nothing when the
\* cursor highlights no task
C34_CompactActsOnHighlighted ==
    [][ last_op' \in {"mark_task_done", "archive_task"} =>
          IF CompactCursorTask = None
          THEN tasks' = tasks /\ files' = files
          ELSE OnlyStatusOf(CompactCursorTask[1].id, StatusGiven(last_op'))
      ]_vars

\* the same when the displayed order is the stored order up to the cursor
C34_CompactActsOnHighlightedInOrder ==
    [][ (/\ last_op' \in {"mark_task_done", "archive_task"}
         /\ CompactCursorTask # None
         /\ filtered_tasks(tasks, active_filter)[selected_index + 1]
               = CompactCursorTask[1]) =>
          OnlyStatusOf(CompactCursorTask[1].id, StatusGiven(last_op')) ]_vars

\* the card the Kanban cursor is on
KanbanCursorTask ==
    kanban_selected_task(tasks, active_filter, kanban_column, kanban_row)

\* C35: kanban_mark_done and kanban_archive_task on the card at
\* (kanban_column, kanban_row) set the status of that task, and of no
\* other, to Done respectively Archived and write its file, leave
\* kanban_column alone, and leave kanban_row on a card of the column, or on
\* 0 when the column became empty (a failing write of the file aside)
C35_KanbanActsOnCard ==
    [][ (/\ last_op' \in {"kanban_mark_done", "kanban_archive_task"}
         /\ KanbanCursorTask # None
         /\ running') =>
          /\ OnlyStatusOf(KanbanCursorTask[1].id, StatusGiven(last_op'))
          /\ \E i \in 1..Len(files') :
                /\ files'[i] = [ KanbanCursorTask[1] EXCEPT
                                   !.status = StatusGiven(last_op') ]
                /\ \A j \in 1..Len(files') :
                      files'[j].id = KanbanCursorTask[1].id => j = i
          /\ kanban_column' = kanban_column
          /\ IF ColumnCount(kanban_column)' = 0 THEN kanban_row' = 0
             ELSE kanban_row' < ColumnCount(kanban_column)' ]_vars

\* the last of the three Active cards was archived: the column shows two
\* cards and the row moved up onto the second
C35_Witness ==
    /\ last_op = "kanban_archive_task" /\ running
    /\ view_mode = "Kanban" /\ kanban_column = KANBAN_COL_ACTIVE
    /\ ColumnCount(KANBAN_COL_ACTIVE) = 2 /\ kanban_row = 1
    /\ \E i \in 1..Len(tasks) : tasks[i].status = "archived"
    /\ \E i \in 1..Len(files) : files[i].status = "archived"

(***************************************************************************)
(* Invariants of the views and the overlays.                               *)
(***************************************************************************)
\* C36: current_project_id is set exactly when the view is ProjectGantt,
\* and then it is the id of an item of type Project of the in-memory set
C36_ProjectIdIffGantt ==
    /\ current_project_id # None <=> view_mode = "ProjectGantt"
    /\ current_project_id # None =>
          \E i \in 1..Len(tasks) :
             /\ tasks[i].id = current_project_id[1]
             /\ tasks[i].item_type = "project"

\* the timeline of the second project is open
C36_Witness ==
    /\ view_mode = "ProjectGantt"
    /\ last_op = "open_project_gantt"
    /\ projects_selected = 1
    /\ current_project_id # None
    /\ \E i \in 1..Len(tasks) :
          tasks[i].id = current_project_id[1] /\ tasks[i].item_type = "project"

\* the overlays that are open
OpenOverlays ==
    { o \in {"new_task", "new_project", "settings_edit"} :
        \/ o = "new_task" /\ show_new_task
        \/ o = "new_project" /\ show_new_project
        \/ o = "settings_edit" /\ settings_editing }

\* C37: at most one of the three overlays is open, the new-task dialog only
\* in Compact or Kanban, the new-project dialog only in Projects, the
\* settings edit dialog only in Settings
C37_OneOverlayInItsView ==
    /\ Cardinality(OpenOverlays) <= 1
    /\ show_new_task => view_mode \in {"Compact", "Kanban"}
    /\ show_new_project => view_mode = "Projects"
    /\ settings_editing => view_mode = "Settings"

\* the new-task dialog is open over the Kanban board and holds typed text
C37_Witness ==
    /\ OpenOverlays = {"new_task"}
    /\ view_mode = "Kanban"
    /\ new_task_title # << >>

(***************************************************************************)
(* Failing writes of the backing store.                                    *)
(***************************************************************************)
\* the four operations that set a status
StatusOps ==
    {"mark_task_done", "archive_task", "kanban_mark_done",
     "kanban_archive_task"}

\* C38: when the write of the file fails in mark_task_done, archive_task,
\* kanban_mark_done or kanban_archive_task (the operation returns the
\* error, which ends the loop), the in-memory tasks are as before the
\* operation
C38_FailedWriteKeepsMemory ==
    [][ (last_op' \in StatusOps /\ ~ running') => tasks' = tasks ]_vars

(***************************************************************************)
(* The categories of the configuration and the tag filter.                 *)
(***************************************************************************)
\* the names and the keys of the configured categories
WorkstreamNames(ws) == { ws[i].name : i \in 1..Len(ws) }
KeysDistinct(ws) ==
    \A i, j \in 1..Len(ws) : ws[i].key = ws[j].key => i = j

\* C39: a set active_filter is the name of a configured category, also
\* after a rename or a delete of that category in Settings
C39_FilterNamesWorkstream ==
    active_filter # None => active_filter[1] \in WorkstreamNames(workstreams)

\* the same for every step outside Settings
C39_FilterNamesWorkstreamWhenSet ==
    [][ last_op' = "filter_by_tag" =>
          active_filter'[1] \in WorkstreamNames(workstreams') ]_vars

\* C40: from categories with pairwise distinct keys every Settings add,
\* rename and delete leaves categories with pairwise distinct keys, a
\* rename and a delete change no key, and an add assigns a key of '3'..'9'
\* that no category had, a key freed by a delete included
C40_KeysStayDistinct ==
    [][ KeysDistinct(workstreams) =>
          /\ KeysDistinct(workstreams')
          /\ used_keys(workstreams') \subseteq
                used_keys(workstreams)
                   \cup {"3", "4", "5", "6", "7", "8", "9"}
          /\ Len(workstreams') = Len(workstreams) + 1 =>
                /\ last_op' = "settings_confirm_edit"
                /\ workstreams'[Len(workstreams')].key
                      \in {"3", "4", "5", "6", "7", "8", "9"}
                          \ used_keys(workstreams)
                /\ SubSeq(workstreams', 1, Len(workstreams)) = workstreams
      ]_vars

\* the key '3', freed by the delete of the first of seven categories, went
\* to the category that was added
C40_Witness ==
    /\ last_op = "settings_confirm_edit"
    /\ Len(workstreams) = 7
    /\ workstreams[7].key = "3"
    /\ SubSeq(workstreams, 1, 6) = FreedWorkstreams
    /\ KeysDistinct(workstreams)

====
